---- MODULE Spec2Model ----
(***************************************************************************)
(* A model of AWSConfigParser (src/aws_config_parser.py): the load-time     *)
(* normalisation of configuration items, the resource index, the evidence  *)
(* cascades that resolve subnet->network, NAT->network and subnet->CIDR,    *)
(* the three-stage tier classifier and the queries built on them.          *)
(*                                                                         *)
(* JSON / Python values are tagged records [py, v]:                        *)
(*   str  : v is a TLA+ string          list : v is a sequence of values   *)
(*   dict : v is a sequence of <<key, value>> pairs in insertion order,    *)
(*          keys are TLA+ strings and occur once                           *)
(*   bool : v is a BOOLEAN              None : the null value              *)
(*   raise: the exception a call ended with (v names its type)             *)
(***************************************************************************)
EXTENDS Integers, Sequences, FiniteSets, TLC

VARIABLES
    pc,       \* "init" before AWSConfigParser(...) ran, "loaded" after
    doc,      \* the snapshot file's configurationItems as read by json.load
    items,    \* self.items: the same list, normalised in place by __init__
    by_type,  \* self.by_type: resource type -> list of items (a defaultdict)
    by_id,    \* self.by_id: resource id -> item
    result,   \* the last query: [op, arg, value]
    again,    \* whether a query was answered before the last one
    key,      \* a mapping key handed to _to_camel: [k, out, calls]
    passes,   \* how often the items went through the normalisation
    web,      \* the export requests of web/app.py and the files they share
    flow      \* one run of LayoutEngine._layout_icons_flow

vars == <<pc, doc, items, by_type, by_id, result, again, key, passes, web, flow>>

-----------------------------------------------------------------------------
(* Python values *)

S(s) == [py |-> "str", v |-> s]
B(b) == [py |-> "bool", v |-> b]
L(seq) == [py |-> "list", v |-> seq]
D(pairs) == [py |-> "dict", v |-> pairs]
None == [py |-> "None", v |-> "None"]
Raise(type) == [py |-> "raise", v |-> type]

EmptyStr == S("")
EmptyList == L(<<>>)
EmptyDict == D(<<>>)

IsStr(x) == x.py = "str"
IsList(x) == x.py = "list"
IsDict(x) == x.py = "dict"
IsNone(x) == x.py = "None"
IsRaise(x) == x.py = "raise"

\* bool(x) / "if x:"
Truthy(x) ==
    CASE x.py = "str" -> x.v # ""
      [] x.py = "list" -> Len(x.v) > 0
      [] x.py = "dict" -> Len(x.v) > 0
      [] x.py = "bool" -> x.v
      [] OTHER -> FALSE

\* k in d
Has(d, k) == \E i \in 1..Len(d.v) : d.v[i][1] = k

\* d[k] for a key that is present
Item(d, k) == d.v[CHOOSE i \in 1..Len(d.v) : d.v[i][1] = k][2]

\* d.get(k, default)
Get(d, k, default) == IF Has(d, k) THEN Item(d, k) ELSE default

\* d[k] = val: a present key keeps its place, a new key goes last
SetKey(d, k, val) ==
    IF Has(d, k)
    THEN D([i \in 1..Len(d.v) |-> IF d.v[i][1] = k THEN <<k, val>> ELSE d.v[i]])
    ELSE D(Append(d.v, <<k, val>>))

\* list(d.values())
Values(d) == [i \in 1..Len(d.v) |-> d.v[i][2]]

\* set(d)
Keys(d) == {d.v[i][1] : i \in 1..Len(d.v)}

Reverse(seq) == [i \in 1..Len(seq) |-> seq[Len(seq) + 1 - i]]

\* the least index of a non-empty set of indices
First(idx) == CHOOSE i \in idx : \A j \in idx : i <= j

\* [x for x in seq if x in keep], for a sequence of strings
RECURSIVE Within(_, _)
Within(seq, keep) ==
    IF seq = <<>> THEN <<>>
    ELSE (IF Head(seq) \in keep THEN <<Head(seq)>> ELSE <<>>) \o Within(Tail(seq), keep)

\* [x for x in seq if x not in drop]
RECURSIVE Without(_, _)
Without(seq, drop) ==
    IF seq = <<>> THEN <<>>
    ELSE (IF Head(seq) \notin drop THEN <<Head(seq)>> ELSE <<>>) \o Without(Tail(seq), drop)

-----------------------------------------------------------------------------
(* Strings.  A string is opaque; what the code asks of one (startswith,    *)
(* lower, in, split) is read off the spelling of the strings the inputs    *)
(* are drawn from.                                                         *)

AllVpcIds == <<"vpc-1", "vpc-2", "vpc-3", "vpc-4">>
AllSubnetIds == <<"sub-1", "sub-2", "sub-3", "sub-4", "sub-5">>
IgwIds == {"igw-1", "igw-2"}
NatIds == {"nat-1", "nat-2"}

\* s.startswith(prefix), s a str
StartsWith(s, prefix) ==
    CASE prefix = "igw-" -> s.v \in IgwIds
      [] prefix = "nat-" -> s.v \in NatIds

\* the Name tags of the inputs, and name.lower()
LowerName(name) ==
    CASE name = "Public-A" -> "public-a"
      [] name = "App-Private" -> "app-private"
      [] name = "DB-1" -> "db-1"
      [] name = "Isolated-X" -> "isolated-x"
      [] name = "metadata" -> "metadata"
      [] name = "web" -> "web"
      [] name = "" -> ""

\* sub in s, for the lowered names and the resource names of the inputs
Contains(s, sub) ==
    CASE sub = "public" -> s \in {"public-a"}
      [] sub = "private" -> s \in {"app-private"}
      [] sub = "isolated" -> s \in {"isolated-x"}
      [] sub = "db" -> s \in {"db-1"}
      [] sub = "data" -> s \in {"metadata"}
      [] sub = "/" -> s \in {"10.0.9.0/24"}

\* ip.split(".")
SplitDots(ip) ==
    CASE ip = "10.0.1.5" -> <<"10", "0", "1", "5">>
      [] ip = "10.0.2.7" -> <<"10", "0", "2", "7">>
      [] ip = "10.0.1" -> <<"10", "0", "1">>

-----------------------------------------------------------------------------
(* Record Normalizer *)

UpperChars ==
    {"A", "B", "C", "D", "E", "F", "G", "H", "I", "J", "K", "L", "M",
     "N", "O", "P", "Q", "R", "S", "T", "U", "V", "W", "X", "Y", "Z", "MathA"}

\* c.isupper(); "MathA" stands for U+1D400, an uppercase letter that
\* str.lower() leaves as it is
IsUpper(c) == c \in UpperChars

LowerOf ==
    [c \in UpperChars |->
        CASE c = "A" -> "a" [] c = "B" -> "b" [] c = "C" -> "c" [] c = "D" -> "d"
          [] c = "E" -> "e" [] c = "F" -> "f" [] c = "G" -> "g" [] c = "H" -> "h"
          [] c = "I" -> "i" [] c = "J" -> "j" [] c = "K" -> "k" [] c = "L" -> "l"
          [] c = "M" -> "m" [] c = "N" -> "n" [] c = "O" -> "o" [] c = "P" -> "p"
          [] c = "Q" -> "q" [] c = "R" -> "r" [] c = "S" -> "s" [] c = "T" -> "t"
          [] c = "U" -> "u" [] c = "V" -> "v" [] c = "W" -> "w" [] c = "X" -> "x"
          [] c = "Y" -> "y" [] c = "Z" -> "z" [] c = "MathA" -> "MathA"]

\* s.lower(), character by character
Lower(chars) ==
    [j \in 1..Len(chars) |-> IF chars[j] \in UpperChars THEN LowerOf[chars[j]] ELSE chars[j]]

\* the while loop of _to_camel: the 0-based index i it ends with
RECURSIVE UpperRun(_, _)
UpperRun(chars, i) ==
    IF i < Len(chars) - 1 /\ IsUpper(chars[i + 1]) /\ IsUpper(chars[i + 2])
    THEN UpperRun(chars, i + 1)
    ELSE i

\* _to_camel on the characters of a key
_to_camel(chars) ==
    IF Len(chars) = 0 \/ ~IsUpper(chars[1]) THEN chars
    ELSE LET i == UpperRun(chars, 0) IN
         IF i = 0
         THEN Lower(SubSeq(chars, 1, 1)) \o SubSeq(chars, 2, Len(chars))
         ELSE Lower(SubSeq(chars, 1, i)) \o SubSeq(chars, i + 1, Len(chars))

\* the spelling of the mapping keys that occur in the inputs
Chars(k) ==
    CASE k = "vpcId" -> <<"v", "p", "c", "I", "d">>
      [] k = "subnetId" -> <<"s", "u", "b", "n", "e", "t", "I", "d">>
      [] k = "availabilityZone" -> <<"a", "v", "a", "i", "l", "a", "b", "i", "l", "i", "t", "y", "Z", "o", "n", "e">>
      [] k = "cidrBlock" -> <<"c", "i", "d", "r", "B", "l", "o", "c", "k">>
      [] k = "mapPublicIpOnLaunch" -> <<"m", "a", "p", "P", "u", "b", "l", "i", "c", "I", "p", "O", "n", "L", "a", "u", "n", "c", "h">>
      [] k = "routes" -> <<"r", "o", "u", "t", "e", "s">>
      [] k = "routeSet" -> <<"r", "o", "u", "t", "e", "S", "e", "t">>
      [] k = "destinationCidrBlock" -> <<"d", "e", "s", "t", "i", "n", "a", "t", "i", "o", "n", "C", "i", "d", "r", "B", "l", "o", "c", "k">>
      [] k = "destinationCidr" -> <<"d", "e", "s", "t", "i", "n", "a", "t", "i", "o", "n", "C", "i", "d", "r">>
      [] k = "gatewayId" -> <<"g", "a", "t", "e", "w", "a", "y", "I", "d">>
      [] k = "natGatewayId" -> <<"n", "a", "t", "G", "a", "t", "e", "w", "a", "y", "I", "d">>
      [] k = "associations" -> <<"a", "s", "s", "o", "c", "i", "a", "t", "i", "o", "n", "s">>
      [] k = "routeTableAssociationSet" -> <<"r", "o", "u", "t", "e", "T", "a", "b", "l", "e", "A", "s", "s", "o", "c", "i", "a", "t", "i", "o", "n", "S", "e", "t">>
      [] k = "main" -> <<"m", "a", "i", "n">>
      [] k = "scheme" -> <<"s", "c", "h", "e", "m", "e">>
      [] k = "availabilityZones" -> <<"a", "v", "a", "i", "l", "a", "b", "i", "l", "i", "t", "y", "Z", "o", "n", "e", "s">>
      [] k = "dBSubnetGroup" -> <<"d", "B", "S", "u", "b", "n", "e", "t", "G", "r", "o", "u", "p">>
      [] k = "dbSubnetGroup" -> <<"d", "b", "S", "u", "b", "n", "e", "t", "G", "r", "o", "u", "p">>
      [] k = "subnets" -> <<"s", "u", "b", "n", "e", "t", "s">>
      [] k = "subnetIdentifier" -> <<"s", "u", "b", "n", "e", "t", "I", "d", "e", "n", "t", "i", "f", "i", "e", "r">>
      [] k = "attachments" -> <<"a", "t", "t", "a", "c", "h", "m", "e", "n", "t", "s">>
      [] k = "isDefault" -> <<"i", "s", "D", "e", "f", "a", "u", "l", "t">>
      [] k = "natGatewayAddresses" -> <<"n", "a", "t", "G", "a", "t", "e", "w", "a", "y", "A", "d", "d", "r", "e", "s", "s", "e", "s">>
      [] k = "publicIp" -> <<"p", "u", "b", "l", "i", "c", "I", "p">>
      [] k = "privateIpAddress" -> <<"p", "r", "i", "v", "a", "t", "e", "I", "p", "A", "d", "d", "r", "e", "s", "s">>
      [] k = "privateIpAddresses" -> <<"p", "r", "i", "v", "a", "t", "e", "I", "p", "A", "d", "d", "r", "e", "s", "s", "e", "s">>
      [] k = "groupId" -> <<"g", "r", "o", "u", "p", "I", "d">>
      [] k = "groupName" -> <<"g", "r", "o", "u", "p", "N", "a", "m", "e">>
      [] k = "ipPermissions" -> <<"i", "p", "P", "e", "r", "m", "i", "s", "s", "i", "o", "n", "s">>
      [] k = "ipPermissionsEgress" -> <<"i", "p", "P", "e", "r", "m", "i", "s", "s", "i", "o", "n", "s", "E", "g", "r", "e", "s", "s">>
      [] k = "ipRanges" -> <<"i", "p", "R", "a", "n", "g", "e", "s">>
      [] k = "cidrIp" -> <<"c", "i", "d", "r", "I", "p">>
      [] k = "userIdGroupPairs" -> <<"u", "s", "e", "r", "I", "d", "G", "r", "o", "u", "p", "P", "a", "i", "r", "s">>
      [] k = "fromPort" -> <<"f", "r", "o", "m", "P", "o", "r", "t">>
      [] k = "toPort" -> <<"t", "o", "P", "o", "r", "t">>
      [] k = "ipProtocol" -> <<"i", "p", "P", "r", "o", "t", "o", "c", "o", "l">>
      [] k = "description" -> <<"d", "e", "s", "c", "r", "i", "p", "t", "i", "o", "n">>
      [] k = "VpcId" -> <<"V", "p", "c", "I", "d">>
      [] k = "SubnetId" -> <<"S", "u", "b", "n", "e", "t", "I", "d">>
      [] k = "AvailabilityZone" -> <<"A", "v", "a", "i", "l", "a", "b", "i", "l", "i", "t", "y", "Z", "o", "n", "e">>
      [] k = "CidrBlock" -> <<"C", "i", "d", "r", "B", "l", "o", "c", "k">>
      [] k = "DBSubnetGroup" -> <<"D", "B", "S", "u", "b", "n", "e", "t", "G", "r", "o", "u", "p">>
      [] k = "DBInstanceClass" -> <<"D", "B", "I", "n", "s", "t", "a", "n", "c", "e", "C", "l", "a", "s", "s">>
      [] k = "dbInstanceClass" -> <<"d", "b", "I", "n", "s", "t", "a", "n", "c", "e", "C", "l", "a", "s", "s">>
      [] k = "dBInstanceClass" -> <<"d", "B", "I", "n", "s", "t", "a", "n", "c", "e", "C", "l", "a", "s", "s">>
      [] k = "Subnets" -> <<"S", "u", "b", "n", "e", "t", "s">>
      [] k = "SubnetIdentifier" -> <<"S", "u", "b", "n", "e", "t", "I", "d", "e", "n", "t", "i", "f", "i", "e", "r">>
      [] k = "Routes" -> <<"R", "o", "u", "t", "e", "s">>
      [] k = "GatewayId" -> <<"G", "a", "t", "e", "w", "a", "y", "I", "d">>
      [] k = "DestinationCidrBlock" -> <<"D", "e", "s", "t", "i", "n", "a", "t", "i", "o", "n", "C", "i", "d", "r", "B", "l", "o", "c", "k">>
      [] k = "Associations" -> <<"A", "s", "s", "o", "c", "i", "a", "t", "i", "o", "n", "s">>
      [] k = "Main" -> <<"M", "a", "i", "n">>
      [] k = "IpPermissions" -> <<"I", "p", "P", "e", "r", "m", "i", "s", "s", "i", "o", "n", "s">>
      [] k = "UserIdGroupPairs" -> <<"U", "s", "e", "r", "I", "d", "G", "r", "o", "u", "p", "P", "a", "i", "r", "s">>
      [] k = "GroupId" -> <<"G", "r", "o", "u", "p", "I", "d">>
      [] k = "IpRanges" -> <<"I", "p", "R", "a", "n", "g", "e", "s">>
      [] k = "CidrIp" -> <<"C", "i", "d", "r", "I", "p">>
      [] k = "ipv6Ranges" -> <<"i", "p", "v", "6", "R", "a", "n", "g", "e", "s">>
      [] k = "cidrIpv6" -> <<"c", "i", "d", "r", "I", "p", "v", "6">>

RECURSIVE Join(_)
Join(chars) == IF chars = <<>> THEN "" ELSE Head(chars) \o Join(Tail(chars))

\* _to_camel on a mapping key
ToCamelKey(k) == Join(_to_camel(Chars(k)))

\* _normalize_keys: dicts get their keys rewritten (a later key that is
\* rewritten to an earlier one overwrites it), lists are mapped, the rest
\* is returned as it is
RECURSIVE _normalize_keys(_)
RECURSIVE NormalizePairs(_, _)
NormalizePairs(pairs, acc) ==
    IF pairs = <<>> THEN acc
    ELSE NormalizePairs(Tail(pairs),
                        SetKey(acc, ToCamelKey(Head(pairs)[1]), _normalize_keys(Head(pairs)[2])))

_normalize_keys(obj) ==
    CASE IsDict(obj) -> NormalizePairs(obj.v, EmptyDict)
      [] IsList(obj) -> L([i \in 1..Len(obj.v) |-> _normalize_keys(obj.v[i])])
      [] OTHER -> obj

\* json.loads(text) for the configuration texts of the inputs; a text that
\* is no JSON document ends in JSONDecodeError
json_loads(text) ==
    CASE text = "{\"VpcId\": \"vpc-1\"}" -> D(<< <<"VpcId", S("vpc-1")>> >>)
      [] text = "{\"vpcId\": \"vpc-2\"}" -> D(<< <<"vpcId", S("vpc-2")>> >>)
      [] text = "{}" -> EmptyDict
      [] text = "[]" -> EmptyList
      [] text = "\"{\\\"VpcId\\\": \\\"vpc-1\\\"}\"" -> S("{\"VpcId\": \"vpc-1\"}")
      [] text = "[{\"cidrBlock\": \"10.0.4.0/24\"}]" ->
             L(<< D(<< <<"cidrBlock", S("10.0.4.0/24")>> >>) >>)
      [] text = "{not json" -> Raise("JSONDecodeError")
      [] text = "" -> Raise("JSONDecodeError")
      [] text = "vpc-1" -> Raise("JSONDecodeError")

\* __init__: None -> empty dict / empty list
NullsReplaced(item) ==
    LET i1 == IF IsNone(Get(item, "configuration", None))
              THEN SetKey(item, "configuration", EmptyDict) ELSE item
    IN  IF IsNone(Get(i1, "relationships", None))
        THEN SetKey(i1, "relationships", EmptyList) ELSE i1

\* __init__: a configuration that is a JSON string is parsed; when the parse
\* raises, the except clause passes
ConfigParsed(item) ==
    LET cfg == Get(item, "configuration", None) IN
    IF IsStr(cfg) /\ ~IsRaise(json_loads(cfg.v))
    THEN SetKey(item, "configuration", json_loads(cfg.v))
    ELSE item

\* __init__: the keys of a dict configuration are rewritten
KeysNormalized(item) ==
    LET cfg == Get(item, "configuration", None) IN
    IF IsDict(cfg) THEN SetKey(item, "configuration", _normalize_keys(cfg)) ELSE item

\* __init__: the loop over a list of tags that fills tag_dict
RECURSIVE CollapseTags(_, _)
CollapseTags(tags, tag_dict) ==
    IF tags = <<>> THEN tag_dict
    ELSE LET t == Head(tags)
             k == Get(t, "key", Get(t, "Key", EmptyStr))
             v == Get(t, "value", Get(t, "Value", EmptyStr))
         IN  CollapseTags(Tail(tags),
                          IF IsDict(t) /\ Truthy(k) THEN SetKey(tag_dict, k.v, v) ELSE tag_dict)

\* a variant that keeps only the tags that arrive as a list
TagsCollapsed_lists_only(item) ==
    LET tags == Get(item, "tags", None) IN
    IF IsList(tags) THEN SetKey(item, "tags", CollapseTags(tags.v, EmptyDict))
    ELSE SetKey(item, "tags", EmptyDict)

\* __init__: a list of {key, value} pairs becomes one dict; anything that is
\* neither a list nor a dict becomes the empty dict
TagsCollapsed(item) ==
    LET tags == Get(item, "tags", None) IN
    CASE IsList(tags) -> SetKey(item, "tags", CollapseTags(tags.v, EmptyDict))
      [] ~IsDict(tags) -> SetKey(item, "tags", EmptyDict)
      [] OTHER -> item

\* the body of the for loop of __init__ up to the index update
NormalizeItem(item) == TagsCollapsed(KeysNormalized(ConfigParsed(NullsReplaced(item))))

-----------------------------------------------------------------------------
(* Resource Index *)

AUDIT_RESOURCE_TYPES ==
    {"AWS::EC2::VPC", "AWS::EC2::Subnet", "AWS::EC2::InternetGateway",
     "AWS::EC2::NatGateway", "AWS::EC2::Instance", "AWS::EC2::SecurityGroup",
     "AWS::EC2::RouteTable", "AWS::EC2::VPCPeeringConnection",
     "AWS::ElasticLoadBalancingV2::LoadBalancer", "AWS::CloudFront::Distribution",
     "AWS::ApiGateway::RestApi", "AWS::ApiGatewayV2::Api", "AWS::Route53::HostedZone",
     "AWS::Lambda::Function", "AWS::ECS::Cluster", "AWS::ECS::Service",
     "AWS::ECS::TaskDefinition", "AWS::EKS::Cluster",
     "AWS::AutoScaling::AutoScalingGroup", "AWS::RDS::DBInstance",
     "AWS::DynamoDB::Table", "AWS::ElastiCache::CacheCluster",
     "AWS::Redshift::Cluster", "AWS::S3::Bucket", "AWS::SQS::Queue",
     "AWS::SNS::Topic", "AWS::WAFv2::WebACL", "AWS::KMS::Key",
     "AWS::CloudTrail::Trail", "AWS::CloudWatch::Alarm",
     "AWS::ElasticBeanstalk::Environment"}

T_VPC == "AWS::EC2::VPC"
T_Subnet == "AWS::EC2::Subnet"
T_IGW == "AWS::EC2::InternetGateway"
T_NAT == "AWS::EC2::NatGateway"
T_Instance == "AWS::EC2::Instance"
T_SG == "AWS::EC2::SecurityGroup"
T_RouteTable == "AWS::EC2::RouteTable"
T_ALB == "AWS::ElasticLoadBalancingV2::LoadBalancer"
T_RDS == "AWS::RDS::DBInstance"
T_ENI == "AWS::EC2::NetworkInterface"

NoBuckets == [t \in {} |-> <<>>]

\* self.by_type[t] as a value: a missing bucket of the defaultdict reads as []
Bucket(bt, t) == IF t \in DOMAIN bt THEN bt[t] ELSE <<>>

\* self.by_type.get(t, [])
BucketGet(bt, t) == IF t \in DOMAIN bt THEN bt[t] ELSE <<>>

\* what reading self.by_type[t] for every t of types leaves behind: the
\* defaultdict inserts an empty bucket for a type it did not hold
Touch(bt, types) == [t \in DOMAIN bt \cup types |-> Bucket(bt, t)]

\* __init__: self.by_type after the index updates of the (normalised) items
RECURSIVE IndexByType(_, _)
IndexByType(bt, its) ==
    IF its = <<>> THEN bt
    ELSE LET rt == Get(Head(its), "resourceType", EmptyStr).v IN
         IndexByType(IF rt \in AUDIT_RESOURCE_TYPES
                     THEN [t \in DOMAIN bt \cup {rt} |->
                              IF t = rt THEN Append(Bucket(bt, t), Head(its)) ELSE bt[t]]
                     ELSE bt,
                     Tail(its))

\* __init__: self.by_id after the index updates; a later item replaces an
\* earlier one of the same id
RECURSIVE IndexById(_, _)
IndexById(bi, its) ==
    IF its = <<>> THEN bi
    ELSE LET rt == Get(Head(its), "resourceType", EmptyStr).v
             rid == Get(Head(its), "resourceId", EmptyStr).v
         IN  IndexById(IF rt \in AUDIT_RESOURCE_TYPES
                       THEN [r \in DOMAIN bi \cup {rid} |-> IF r = rid THEN Head(its) ELSE bi[r]]
                       ELSE bi,
                       Tail(its))

-----------------------------------------------------------------------------
(* Relationship Resolver *)

\* _get_related_vpc: the resourceId of the first relationship to a VPC
_get_related_vpc(item) ==
    LET rels == Get(item, "relationships", EmptyList).v
        hits == {i \in 1..Len(rels) : Get(rels[i], "resourceType", None) = S(T_VPC)}
    IN  IF hits = {} THEN EmptyStr ELSE Get(rels[First(hits)], "resourceId", EmptyStr)

\* cfg.get("vpcId", "") of a route table, else its related VPC
RouteTableVpc(item, cfg) ==
    IF Truthy(Get(cfg, "vpcId", EmptyStr)) THEN Get(cfg, "vpcId", EmptyStr)
    ELSE _get_related_vpc(item)

\* cfg.get("associations", cfg.get("routeTableAssociationSet", []))
RouteTableAssociations(cfg) ==
    Get(cfg, "associations", Get(cfg, "routeTableAssociationSet", EmptyList)).v

\* _build_subnet_vpc_map, Source 1: the subnet's own configuration
RECURSIVE s2v_subnet_config(_, _)
s2v_subnet_config(subnets, s2v) ==
    IF subnets = <<>> THEN s2v
    ELSE LET item == Head(subnets)
             cfg == Get(item, "configuration", EmptyDict)
         IN  s2v_subnet_config(Tail(subnets),
                 IF IsDict(cfg) /\ Truthy(Get(cfg, "vpcId", None))
                 THEN SetKey(s2v, Item(item, "resourceId").v, Item(cfg, "vpcId"))
                 ELSE s2v)

\* a variant of Source 2 that lets a relationship replace what Source 1 found
RECURSIVE s2v_relationships_overwriting(_, _)
s2v_relationships_overwriting(subnets, s2v) ==
    IF subnets = <<>> THEN s2v
    ELSE LET sid == Item(Head(subnets), "resourceId").v
             vpc == _get_related_vpc(Head(subnets))
         IN  s2v_relationships_overwriting(Tail(subnets),
                 IF Truthy(vpc) THEN SetKey(s2v, sid, vpc) ELSE s2v)

\* Source 2: the subnet's relationships
RECURSIVE s2v_subnet_relationships(_, _)
s2v_subnet_relationships(subnets, s2v) ==
    IF subnets = <<>> THEN s2v
    ELSE LET sid == Item(Head(subnets), "resourceId").v
             vpc == _get_related_vpc(Head(subnets))
         IN  s2v_subnet_relationships(Tail(subnets),
                 IF ~Has(s2v, sid) /\ Truthy(vpc) THEN SetKey(s2v, sid, vpc) ELSE s2v)

\* Sources 3 and 4: items that carry subnetId and vpcId in their
\* configuration (instances, then NAT gateways)
RECURSIVE s2v_bridge(_, _)
s2v_bridge(bridges, s2v) ==
    IF bridges = <<>> THEN s2v
    ELSE LET cfg == Get(Head(bridges), "configuration", EmptyDict)
             sub == Get(cfg, "subnetId", EmptyStr)
             vpc == Get(cfg, "vpcId", EmptyStr)
         IN  s2v_bridge(Tail(bridges),
                 IF IsDict(cfg) /\ Truthy(sub) /\ Truthy(vpc) /\ ~Has(s2v, sub.v)
                 THEN SetKey(s2v, sub.v, vpc) ELSE s2v)

\* the inner loop of Sources 5 and 6: every entry with a subnetId that is
\* not mapped yet is mapped to vpc
RECURSIVE s2v_entries(_, _, _)
s2v_entries(entries, vpc, s2v) ==
    IF entries = <<>> THEN s2v
    ELSE LET sub == Get(Head(entries), "subnetId", EmptyStr) IN
         s2v_entries(Tail(entries), vpc,
             IF Truthy(sub) /\ ~Has(s2v, sub.v) THEN SetKey(s2v, sub.v, vpc) ELSE s2v)

\* Source 5: the availability zones of load balancers
RECURSIVE s2v_load_balancers(_, _)
s2v_load_balancers(albs, s2v) ==
    IF albs = <<>> THEN s2v
    ELSE LET cfg == Get(Head(albs), "configuration", EmptyDict) IN
         s2v_load_balancers(Tail(albs),
             IF IsDict(cfg) /\ Truthy(Get(cfg, "vpcId", EmptyStr))
             THEN s2v_entries(Get(cfg, "availabilityZones", EmptyList).v,
                              Get(cfg, "vpcId", EmptyStr), s2v)
             ELSE s2v)

\* Source 6: the associations of route tables
RECURSIVE s2v_route_tables(_, _)
s2v_route_tables(rtbs, s2v) ==
    IF rtbs = <<>> THEN s2v
    ELSE LET cfg == Get(Head(rtbs), "configuration", EmptyDict) IN
         s2v_route_tables(Tail(rtbs),
             IF IsDict(cfg) /\ Truthy(RouteTableVpc(Head(rtbs), cfg))
             THEN s2v_entries(RouteTableAssociations(cfg), RouteTableVpc(Head(rtbs), cfg), s2v)
             ELSE s2v)

\* _build_subnet_vpc_map: subnet id -> vpc id, the sources in their order
_build_subnet_vpc_map(bt) ==
    s2v_route_tables(Bucket(bt, T_RouteTable),
      s2v_load_balancers(Bucket(bt, T_ALB),
        s2v_bridge(Bucket(bt, T_NAT),
          s2v_bridge(Bucket(bt, T_Instance),
            s2v_subnet_relationships(Bucket(bt, T_Subnet),
              s2v_subnet_config(Bucket(bt, T_Subnet), EmptyDict))))))

\* the buckets _build_subnet_vpc_map reads
Touched_subnet_vpc_map == {T_Subnet, T_Instance, T_NAT, T_ALB, T_RouteTable}

\* item.get("configuration", {}), replaced by {} when it is no dict
ConfigOrEmpty(item) ==
    LET cfg == Get(item, "configuration", EmptyDict) IN
    IF IsDict(cfg) THEN cfg ELSE EmptyDict

\* subnet_ips[sub].append(ip)
AppendIp(subnet_ips, sub, ip) ==
    SetKey(subnet_ips, sub, L(Append(Get(subnet_ips, sub, EmptyList).v, ip)))

\* "if pip not in subnet_ips[sub]: subnet_ips[sub].append(pip)"; the read of
\* the defaultdict leaves an entry behind
AddIp(subnet_ips, sub, ip) ==
    LET seen == Get(subnet_ips, sub, EmptyList).v IN
    IF \E j \in 1..Len(seen) : seen[j] = ip
    THEN SetKey(subnet_ips, sub, L(seen))
    ELSE AppendIp(subnet_ips, sub, ip)

\* _build_subnet_cidr_map: the privateIpAddresses of one network interface
RECURSIVE ips_listed(_, _, _)
ips_listed(priv_addrs, sub, subnet_ips) ==
    IF priv_addrs = <<>> THEN subnet_ips
    ELSE LET pa == Head(priv_addrs) IN
         ips_listed(Tail(priv_addrs), sub,
             IF IsDict(pa) /\ Truthy(Get(pa, "privateIpAddress", EmptyStr))
             THEN AppendIp(subnet_ips, sub, Get(pa, "privateIpAddress", EmptyStr))
             ELSE subnet_ips)

\* _build_subnet_cidr_map: the addresses of the network interfaces
RECURSIVE ips_of_interfaces(_, _)
ips_of_interfaces(enis, subnet_ips) ==
    IF enis = <<>> THEN subnet_ips
    ELSE LET cfg == ConfigOrEmpty(Head(enis))
             sub_id == Get(cfg, "subnetId", EmptyStr)
             pip == Get(cfg, "privateIpAddress", EmptyStr)
             listed == ips_listed(Get(cfg, "privateIpAddresses", EmptyList).v, sub_id.v, subnet_ips)
         IN  ips_of_interfaces(Tail(enis),
                 IF ~Truthy(sub_id) THEN subnet_ips
                 ELSE IF Truthy(pip) THEN AddIp(listed, sub_id.v, pip)
                 ELSE listed)

\* _build_subnet_cidr_map: the addresses of the instances
RECURSIVE ips_of_instances(_, _)
ips_of_instances(insts, subnet_ips) ==
    IF insts = <<>> THEN subnet_ips
    ELSE LET cfg == ConfigOrEmpty(Head(insts))
             sub_id == Get(cfg, "subnetId", EmptyStr)
             pip == Get(cfg, "privateIpAddress", EmptyStr)
         IN  ips_of_instances(Tail(insts),
                 IF Truthy(sub_id) /\ Truthy(pip) THEN AddIp(subnet_ips, sub_id.v, pip)
                 ELSE subnet_ips)

\* _build_subnet_cidr_map: a /24 from the first address of each subnet
RECURSIVE cidr_guess(_, _)
cidr_guess(entries, cidr_map) ==
    IF entries = <<>> THEN cidr_map
    ELSE LET sub_id == Head(entries)[1]
             ips == Head(entries)[2].v
             parts == SplitDots(ips[1].v)
         IN  cidr_guess(Tail(entries),
                 IF Len(ips) > 0 /\ Len(parts) = 4
                 THEN SetKey(cidr_map, sub_id,
                             S(parts[1] \o "." \o parts[2] \o "." \o parts[3] \o ".0/24"))
                 ELSE cidr_map)

_build_subnet_cidr_map(bt) ==
    cidr_guess(ips_of_instances(BucketGet(bt, T_Instance),
                                ips_of_interfaces(BucketGet(bt, T_ENI), EmptyDict)).v,
               EmptyDict)

-----------------------------------------------------------------------------
(* Tier Classifier *)

Public == S("Public")
Private == S("Private")
Isolated == S("Isolated")

\* r.get("destinationCidrBlock", r.get("destinationCidr", "")) == "0.0.0.0/0"
IsDefaultRoute(r) ==
    Get(r, "destinationCidrBlock", Get(r, "destinationCidr", EmptyStr)) = S("0.0.0.0/0")

\* gw and gw.startswith("igw-")
RouteToIgw(r) ==
    LET gw == Get(r, "gatewayId", EmptyStr) IN Truthy(gw) /\ StartsWith(gw, "igw-")

\* the elif: nat and nat.startswith("nat-")
RouteToNat(r) ==
    LET nat == Get(r, "natGatewayId", EmptyStr) IN
    ~RouteToIgw(r) /\ Truthy(nat) /\ StartsWith(nat, "nat-")

\* a variant that knows gateways only: a default route to any other target
\* counts as no default route
RouteTableTier_gateways_only(cfg) ==
    LET routes == Get(cfg, "routes", Get(cfg, "routeSet", EmptyList)).v IN
    IF \E j \in 1..Len(routes) : IsDefaultRoute(routes[j]) /\ RouteToIgw(routes[j]) THEN Public
    ELSE IF \E j \in 1..Len(routes) : IsDefaultRoute(routes[j]) /\ RouteToNat(routes[j]) THEN Private
    ELSE Isolated

\* the tier a route table gives its subnets, from its routes
RouteTableTier(cfg) ==
    LET routes == Get(cfg, "routes", Get(cfg, "routeSet", EmptyList)).v
        has_default == \E j \in 1..Len(routes) : IsDefaultRoute(routes[j])
        has_igw == \E j \in 1..Len(routes) : IsDefaultRoute(routes[j]) /\ RouteToIgw(routes[j])
        has_nat == \E j \in 1..Len(routes) : IsDefaultRoute(routes[j]) /\ RouteToNat(routes[j])
    IN  IF has_igw THEN Public
        ELSE IF has_nat \/ has_default THEN Private
        ELSE Isolated

\* Source 1, the loop over the associations of one route table
RECURSIVE tier_associations(_, _, _)
tier_associations(assocs, tier, subnet_tier) ==
    IF assocs = <<>> THEN subnet_tier
    ELSE LET sid == Get(Head(assocs), "subnetId", EmptyStr) IN
         tier_associations(Tail(assocs), tier,
             IF Truthy(sid) THEN SetKey(subnet_tier, sid.v, tier)
             ELSE IF Truthy(Get(Head(assocs), "main", B(FALSE)))
                  THEN SetKey(subnet_tier, "_main", tier)
                  ELSE subnet_tier)

\* Source 1: the route tables of the network, in bucket order; a table's
\* tier goes to each subnet it is associated with, or to "_main"
RECURSIVE tier_routing(_, _, _)
tier_routing(rtbs, vpc_id, subnet_tier) ==
    IF rtbs = <<>> THEN subnet_tier
    ELSE LET cfg == ConfigOrEmpty(Head(rtbs)) IN
         tier_routing(Tail(rtbs), vpc_id,
             IF RouteTableVpc(Head(rtbs), cfg) # vpc_id THEN subnet_tier
             ELSE tier_associations(RouteTableAssociations(cfg), RouteTableTier(cfg), subnet_tier))

\* the keys of {k: v for k, v in subnet_tier.items() if k != "_main"}
RealEntries(subnet_tier) == Keys(subnet_tier) \ {"_main"}

\* {sid for sid, vid in s2v.items() if vid == vpc_id}
SubnetIdsOf(s2v, vpc_id) == {sid \in Keys(s2v) : Item(s2v, sid) = vpc_id}

VpcSubnetIds(bt, vpc_id) == SubnetIdsOf(_build_subnet_vpc_map(bt), vpc_id)

\* "if sub and sub in vpc_subnet_ids and sub not in subnet_tier:
\*      subnet_tier[sub] = tier"
PlaceTier(subnet_tier, sub, vpc_subnet_ids, tier) ==
    IF Truthy(sub) /\ sub.v \in vpc_subnet_ids /\ ~Has(subnet_tier, sub.v)
    THEN SetKey(subnet_tier, sub.v, tier) ELSE subnet_tier

\* Source 2: the subnets of NAT gateways are Public
RECURSIVE tier_nat_gateways(_, _, _)
tier_nat_gateways(nats, ids, subnet_tier) ==
    IF nats = <<>> THEN subnet_tier
    ELSE tier_nat_gateways(Tail(nats), ids,
             PlaceTier(subnet_tier, Get(ConfigOrEmpty(Head(nats)), "subnetId", EmptyStr),
                       ids, Public))

\* the inner loops of Source 2: entries that name a subnet under key
RECURSIVE tier_entries(_, _, _, _, _)
tier_entries(entries, field, ids, tier, subnet_tier) ==
    IF entries = <<>> THEN subnet_tier
    ELSE tier_entries(Tail(entries), field, ids, tier,
             PlaceTier(subnet_tier, Get(Head(entries), field, EmptyStr), ids, tier))

\* Source 2: the subnets of internet-facing load balancers are Public
RECURSIVE tier_load_balancers(_, _, _)
tier_load_balancers(albs, ids, subnet_tier) ==
    IF albs = <<>> THEN subnet_tier
    ELSE LET cfg == ConfigOrEmpty(Head(albs)) IN
         tier_load_balancers(Tail(albs), ids,
             IF Get(cfg, "scheme", EmptyStr) = S("internet-facing")
             THEN tier_entries(Get(cfg, "availabilityZones", EmptyList).v, "subnetId",
                               ids, Public, subnet_tier)
             ELSE subnet_tier)

\* cfg.get("dBSubnetGroup", cfg.get("dbSubnetGroup", {})), {} when no dict
DbSubnetGroup(cfg) ==
    LET g == Get(cfg, "dBSubnetGroup", Get(cfg, "dbSubnetGroup", EmptyDict)) IN
    IF IsDict(g) THEN g ELSE EmptyDict

\* Source 2: the subnets of database subnet groups are Isolated
RECURSIVE tier_databases(_, _, _)
tier_databases(dbs, ids, subnet_tier) ==
    IF dbs = <<>> THEN subnet_tier
    ELSE tier_databases(Tail(dbs), ids,
             tier_entries(Get(DbSubnetGroup(ConfigOrEmpty(Head(dbs))), "subnets", EmptyList).v,
                          "subnetIdentifier", ids, Isolated, subnet_tier))

\* a variant of Source 2 that places the databases first
tier_service_databases_first(bt, vpc_id, subnet_tier) ==
    tier_load_balancers(Bucket(bt, T_ALB), VpcSubnetIds(bt, vpc_id),
      tier_nat_gateways(Bucket(bt, T_NAT), VpcSubnetIds(bt, vpc_id),
        tier_databases(Bucket(bt, T_RDS), VpcSubnetIds(bt, vpc_id), subnet_tier)))

\* Source 2: NAT gateways, then load balancers, then databases
service_stage(bt, ids, subnet_tier) ==
    tier_databases(Bucket(bt, T_RDS), ids,
      tier_load_balancers(Bucket(bt, T_ALB), ids,
        tier_nat_gateways(Bucket(bt, T_NAT), ids, subnet_tier)))

tier_service(bt, vpc_id, subnet_tier) ==
    service_stage(bt, VpcSubnetIds(bt, vpc_id), subnet_tier)

\* a variant that asks whether the index has the bucket
BucketPresent(bt, t) == t \in DOMAIN bt

\* bool(self.by_type[t])
BucketNonEmpty(bt, t) == Len(Bucket(bt, t)) > 0

\* Source 3: the subnet ids of the network grouped by availability zone, in
\* bucket order
RECURSIVE az_subnets_of(_, _, _)
az_subnets_of(subnets, ids, az_subnets) ==
    IF subnets = <<>> THEN az_subnets
    ELSE LET item == Head(subnets)
             sid == Item(item, "resourceId").v
             cfg_s == Get(item, "configuration", EmptyDict)
             az1 == IF IsDict(cfg_s) THEN Get(cfg_s, "availabilityZone", EmptyStr) ELSE EmptyStr
             az == IF Truthy(az1) THEN az1 ELSE Get(item, "availabilityZone", EmptyStr)
             az_key == IF Truthy(az) THEN az.v ELSE "unknown"
         IN  az_subnets_of(Tail(subnets), ids,
                 IF sid \notin ids THEN az_subnets
                 ELSE SetKey(az_subnets, az_key, Append(Get(az_subnets, az_key, <<>>), sid)))

\* Source 3: the subnets of the network that hold an instance
ec2_subnets_of(insts, ids) ==
    {sub \in ids :
        \E j \in 1..Len(insts) :
            LET cfg_e == Get(insts[j], "configuration", EmptyDict) IN
            IsDict(cfg_e) /\ Get(cfg_e, "subnetId", EmptyStr) = S(sub)}

\* "for s in sids: if s not in assigned: subnet_tier[s] = Private"
RECURSIVE tier_remaining(_, _, _)
tier_remaining(sids, assigned, subnet_tier) ==
    IF sids = <<>> THEN subnet_tier
    ELSE tier_remaining(Tail(sids), assigned,
             IF Head(sids) \notin assigned THEN SetKey(subnet_tier, Head(sids), Private)
             ELSE subnet_tier)

\* Source 3, three or more subnets in a zone: the subnet that becomes
\* Isolated when a database exists (a set with at most one member)
IsolatedPick(sids, non_ec2, pub, has_rds) ==
    LET free_non_ec2 == Without(non_ec2, {pub})
        free_rev == Without(Reverse(sids), {pub})
    IN  IF ~has_rds THEN {}
        ELSE IF free_non_ec2 # <<>> THEN {free_non_ec2[1]}
        ELSE IF free_rev # <<>> THEN {free_rev[1]}
        ELSE {}

\* a variant of the two-subnet case that never looks at the instances
DistributeZone_in_order(subnet_tier, sids, ec2_subnets, has_igw, has_nat, has_rds) ==
    IF Len(sids) = 1 THEN SetKey(subnet_tier, sids[1], Private)
    ELSE tier_remaining(Tail(sids), {}, SetKey(subnet_tier, sids[1], Public))

\* a variant that reserves a subnet for the database in a zone of two
DistributeZone_isolated_pair(subnet_tier, sids, ec2_subnets, has_igw, has_nat, has_rds) ==
    LET non_ec2 == Without(sids, ec2_subnets)
    IN  CASE Len(sids) = 1 -> SetKey(subnet_tier, sids[1], Private)
          [] Len(sids) = 2 ->
               SetKey(SetKey(subnet_tier, sids[1], Public), sids[2],
                      IF has_rds THEN Isolated ELSE Private)
          [] OTHER ->
               LET pub == IF non_ec2 # <<>> THEN non_ec2[1] ELSE sids[1]
                   iso == IsolatedPick(sids, non_ec2, pub, has_rds)
                   t1 == SetKey(subnet_tier, pub, Public)
                   t2 == IF iso = {} THEN t1 ELSE SetKey(t1, CHOOSE x \in iso : TRUE, Isolated)
               IN  tier_remaining(sids, {pub} \cup iso, t2)

\* Source 3: the tiers of the subnets sids of one availability zone
DistributeZone(subnet_tier, sids, ec2_subnets, has_igw, has_nat, has_rds) ==
    LET non_ec2 == Without(sids, ec2_subnets)
        with_ec2 == Within(sids, ec2_subnets)
    IN  CASE Len(sids) = 1 -> SetKey(subnet_tier, sids[1], Private)
          [] Len(sids) = 2 ->
               IF (has_igw \/ has_nat) /\ non_ec2 # <<>> /\ with_ec2 # <<>>
               THEN SetKey(SetKey(subnet_tier, non_ec2[1], Public), with_ec2[1], Private)
               ELSE SetKey(SetKey(subnet_tier, sids[1], Public), sids[2], Private)
          [] OTHER ->
               LET pub == IF non_ec2 # <<>> THEN non_ec2[1] ELSE sids[1]
                   iso == IsolatedPick(sids, non_ec2, pub, has_rds)
                   t1 == SetKey(subnet_tier, pub, Public)
                   t2 == IF iso = {} THEN t1 ELSE SetKey(t1, CHOOSE x \in iso : TRUE, Isolated)
               IN  tier_remaining(sids, {pub} \cup iso, t2)

\* Source 3, the loop over the availability zones
RECURSIVE tier_zones(_, _, _, _, _, _)
tier_zones(zones, ec2_subnets, has_igw, has_nat, has_rds, subnet_tier) ==
    IF zones = <<>> THEN subnet_tier
    ELSE tier_zones(Tail(zones), ec2_subnets, has_igw, has_nat, has_rds,
             DistributeZone(subnet_tier, Head(zones)[2], ec2_subnets, has_igw, has_nat, has_rds))

structural_stage(bt, ids, subnet_tier) ==
    tier_zones(az_subnets_of(Bucket(bt, T_Subnet), ids, EmptyDict).v,
               ec2_subnets_of(Bucket(bt, T_Instance), ids),
               BucketNonEmpty(bt, T_IGW), BucketNonEmpty(bt, T_NAT), BucketNonEmpty(bt, T_RDS),
               subnet_tier)

tier_structural(bt, vpc_id, subnet_tier) ==
    structural_stage(bt, VpcSubnetIds(bt, vpc_id), subnet_tier)

\* a variant that sets the default to Private whatever the routing stage
\* recorded
WithMainDefault_always_private(subnet_tier) == SetKey(subnet_tier, "_main", Private)

\* subnet_tier with "_main" set to Private when it has none
WithMainDefault(subnet_tier) ==
    IF Has(subnet_tier, "_main") THEN subnet_tier ELSE SetKey(subnet_tier, "_main", Private)

\* the source whose return statement _build_subnet_tier_map leaves by
SourceAfterService(t2) == IF RealEntries(t2) # {} THEN "service" ELSE "structural"

SourceAfterRouting(bt, vpc_id, t1) ==
    IF RealEntries(t1) # {} THEN "routing"
    ELSE SourceAfterService(tier_service(bt, vpc_id, t1))

TierSource(bt, vpc_id) ==
    SourceAfterRouting(bt, vpc_id, tier_routing(Bucket(bt, T_RouteTable), vpc_id, EmptyDict))

\* a variant without the early returns: every source adds to the map
tier_map_without_cutover(bt, vpc_id) ==
    WithMainDefault(
        tier_structural(bt, vpc_id,
            tier_service(bt, vpc_id, tier_routing(Bucket(bt, T_RouteTable), vpc_id, EmptyDict))))

\* _build_subnet_tier_map after Source 2: its result when it placed a
\* subnet, else the result of Source 3
tier_after_service(bt, vpc_id, t2) ==
    IF RealEntries(t2) # {} THEN WithMainDefault(t2)
    ELSE WithMainDefault(tier_structural(bt, vpc_id, t2))

\* _build_subnet_tier_map after Source 1: its result when a route table
\* classified a subnet, else the later sources
tier_after_routing(bt, vpc_id, t1) ==
    IF RealEntries(t1) # {} THEN t1
    ELSE tier_after_service(bt, vpc_id, tier_service(bt, vpc_id, t1))

_build_subnet_tier_map(bt, vpc_id) ==
    tier_after_routing(bt, vpc_id, tier_routing(Bucket(bt, T_RouteTable), vpc_id, EmptyDict))

\* the buckets _build_subnet_tier_map reads on its way
TouchedBySource(source) ==
    {T_RouteTable}
    \cup (IF source # "routing"
          THEN Touched_subnet_vpc_map \cup {T_NAT, T_ALB, T_RDS} ELSE {})
    \cup (IF source = "structural"
          THEN {T_IGW, T_NAT, T_RDS, T_Subnet, T_Instance} ELSE {})

Touched_subnet_tier_map(bt, vpc_id) == TouchedBySource(TierSource(bt, vpc_id))

\* how often _build_subnet_tier_map runs _build_subnet_vpc_map (line 316,
\* after the early return of the routing stage)
Runs_subnet_tier_map(bt, vpc_id) ==
    IF RealEntries(tier_routing(Bucket(bt, T_RouteTable), vpc_id, EmptyDict)) # {} THEN 0 ELSE 1
-----------------------------------------------------------------------------
(* Primary network, gateway and NAT resolution *)

\* the distinct members of seq in the order of their first occurrence
RECURSIVE Unique(_, _)
Unique(seq, acc) ==
    IF seq = <<>> THEN acc
    ELSE Unique(Tail(seq),
                IF \E j \in 1..Len(acc) : acc[j] = Head(seq) THEN acc ELSE Append(acc, Head(seq)))

\* _get_primary_vpc_id: the vpcId of every instance that has one
RECURSIVE InstanceVpcs(_)
InstanceVpcs(insts) ==
    IF insts = <<>> THEN <<>>
    ELSE LET cfg == Get(Head(insts), "configuration", EmptyDict) IN
         (IF IsDict(cfg) /\ Truthy(Get(cfg, "vpcId", None)) THEN <<Item(cfg, "vpcId")>> ELSE <<>>)
         \o InstanceVpcs(Tail(insts))

\* _get_primary_vpc_id: vpc_counts[vid], one per mapped subnet and ten per
\* instance
VpcCount(vid, mapped, inst_vpcs) ==
    Cardinality({j \in 1..Len(mapped) : mapped[j] = vid})
    + 10 * Cardinality({j \in 1..Len(inst_vpcs) : inst_vpcs[j] = vid})

\* _get_primary_vpc_id: the fallback loop over the VPC items; cfg.get of a
\* configuration that is no dict raises
RECURSIVE primary_fallback(_, _)
primary_fallback(vpcs, all) ==
    IF vpcs = <<>>
    THEN (IF all # <<>> THEN Item(all[1], "resourceId") ELSE EmptyStr)
    ELSE LET cfg == Get(Head(vpcs), "configuration", EmptyDict) IN
         IF ~IsDict(cfg) THEN Raise("AttributeError")
         ELSE IF ~Truthy(Get(cfg, "isDefault", B(FALSE))) THEN Item(Head(vpcs), "resourceId")
         ELSE primary_fallback(Tail(vpcs), all)

\* a max that keeps the last key that has the greatest count
primary_max_last(order, mapped, inst_vpcs) ==
    order[CHOOSE i \in 1..Len(order) :
             /\ \A j \in 1..Len(order) :
                   VpcCount(order[i], mapped, inst_vpcs) >= VpcCount(order[j], mapped, inst_vpcs)
             /\ \A j \in (i + 1)..Len(order) :
                   VpcCount(order[i], mapped, inst_vpcs) > VpcCount(order[j], mapped, inst_vpcs)]

\* _get_primary_vpc_id: max(vpc_counts, key=vpc_counts.get) is the first
\* key, in insertion order, that has the greatest count
primary_max(order, mapped, inst_vpcs) ==
    order[First({i \in 1..Len(order) :
                    \A j \in 1..Len(order) :
                        VpcCount(order[i], mapped, inst_vpcs) >= VpcCount(order[j], mapped, inst_vpcs)})]

\* _get_primary_vpc_id: the counted networks when there are any, else the
\* fallback over the VPC items
primary_of(mapped, inst_vpcs, vpcs) ==
    IF mapped \o inst_vpcs # <<>>
    THEN primary_max(Unique(mapped \o inst_vpcs, <<>>), mapped, inst_vpcs)
    ELSE primary_fallback(vpcs, vpcs)

_get_primary_vpc_id(bt) ==
    primary_of(Values(_build_subnet_vpc_map(bt)), InstanceVpcs(Bucket(bt, T_Instance)),
               Bucket(bt, T_VPC))

Touched_primary_vpc_id(bt) ==
    Touched_subnet_vpc_map \cup {T_Instance}
    \cup (IF Values(_build_subnet_vpc_map(bt)) \o InstanceVpcs(Bucket(bt, T_Instance)) = <<>>
          THEN {T_VPC} ELSE {})

\* the ids of items that are no key of map
RECURSIVE Unmatched(_, _)
Unmatched(its, map) ==
    IF its = <<>> THEN <<>>
    ELSE (IF Has(map, Item(Head(its), "resourceId").v) THEN <<>>
          ELSE <<Item(Head(its), "resourceId").v>>) \o Unmatched(Tail(its), map)

\* for id in ids: map[id] = val
RECURSIVE SetAll(_, _, _)
SetAll(map, ids, val) ==
    IF ids = <<>> THEN map ELSE SetAll(SetKey(map, Head(ids), val), Tail(ids), val)

\* _build_nat_vpc_map, Source 1: the NAT gateway's vpcId, else its related VPC
RECURSIVE nat2vpc_config(_, _)
nat2vpc_config(nats, nat2vpc) ==
    IF nats = <<>> THEN nat2vpc
    ELSE LET item == Head(nats)
             vid == Get(ConfigOrEmpty(item), "vpcId", EmptyStr)
         IN  nat2vpc_config(Tail(nats),
                 IF Truthy(vid) THEN SetKey(nat2vpc, Item(item, "resourceId").v, vid)
                 ELSE IF Truthy(_get_related_vpc(item))
                      THEN SetKey(nat2vpc, Item(item, "resourceId").v, _get_related_vpc(item))
                      ELSE nat2vpc)

\* the routes loop of _build_nat_vpc_map (field natGatewayId, prefix nat-)
\* and of _build_igw_vpc_map (field gatewayId, prefix igw-)
RECURSIVE gw2vpc_routes(_, _, _, _, _)
gw2vpc_routes(routes, field, prefix, rt_vpc, gw2vpc) ==
    IF routes = <<>> THEN gw2vpc
    ELSE LET gw == Get(Head(routes), field, EmptyStr) IN
         gw2vpc_routes(Tail(routes), field, prefix, rt_vpc,
             IF Truthy(gw) /\ StartsWith(gw, prefix) /\ ~Has(gw2vpc, gw.v)
             THEN SetKey(gw2vpc, gw.v, rt_vpc) ELSE gw2vpc)

\* the route table loop of both maps
RECURSIVE gw2vpc_route_tables(_, _, _, _)
gw2vpc_route_tables(rtbs, field, prefix, gw2vpc) ==
    IF rtbs = <<>> THEN gw2vpc
    ELSE LET cfg == Get(Head(rtbs), "configuration", EmptyDict) IN
         gw2vpc_route_tables(Tail(rtbs), field, prefix,
             IF IsDict(cfg) /\ Truthy(RouteTableVpc(Head(rtbs), cfg))
             THEN gw2vpc_routes(Get(cfg, "routes", Get(cfg, "routeSet", EmptyList)).v,
                                field, prefix, RouteTableVpc(Head(rtbs), cfg), gw2vpc)
             ELSE gw2vpc)

\* a last resort gated the way the internet gateway's is: only the first
\* unmatched gateway, and only into a network that has none
nat2vpc_fallback_gated(m2, unmatched, primary_vpc) ==
    IF unmatched = <<>> THEN m2
    ELSE IF IsRaise(primary_vpc) THEN primary_vpc
    ELSE IF Truthy(primary_vpc) /\ ~(\E j \in 1..Len(m2.v) : m2.v[j][2] = primary_vpc)
         THEN SetKey(m2, unmatched[1], primary_vpc)
    ELSE m2

\* _build_nat_vpc_map, the fallback: the NAT gateways no source matched go
\* to the primary network, which is looked up only when there are some
nat2vpc_fallback(m2, unmatched, primary_vpc) ==
    IF unmatched = <<>> THEN m2
    ELSE IF IsRaise(primary_vpc) THEN primary_vpc
    ELSE IF Truthy(primary_vpc) THEN SetAll(m2, unmatched, primary_vpc)
    ELSE m2

nat2vpc_unmatched(m2, nats, primary_vpc) ==
    nat2vpc_fallback(m2, Unmatched(nats, m2), primary_vpc)

\* _build_nat_vpc_map: NAT id -> vpc id
_build_nat_vpc_map(bt) ==
    nat2vpc_unmatched(gw2vpc_route_tables(Bucket(bt, T_RouteTable), "natGatewayId", "nat-",
                                          nat2vpc_config(Bucket(bt, T_NAT), EmptyDict)),
                      Bucket(bt, T_NAT), _get_primary_vpc_id(bt))

\* _build_igw_vpc_map, Sources 1 and 2: the last attachment that names a
\* network, else the related VPC
RECURSIVE igw2vpc_config(_, _)
igw2vpc_config(igws, igw2vpc) ==
    IF igws = <<>> THEN igw2vpc
    ELSE LET item == Head(igws)
             rid == Item(item, "resourceId").v
             atts == Get(ConfigOrEmpty(item), "attachments", EmptyList).v
             named == {j \in 1..Len(atts) : Truthy(Get(atts[j], "vpcId", EmptyStr))}
             last == CHOOSE j \in named : \A k \in named : k <= j
         IN  igw2vpc_config(Tail(igws),
                 IF named # {} THEN SetKey(igw2vpc, rid, Get(atts[last], "vpcId", EmptyStr))
                 ELSE IF ~Has(igw2vpc, rid) /\ Truthy(_get_related_vpc(item))
                      THEN SetKey(igw2vpc, rid, _get_related_vpc(item))
                      ELSE igw2vpc)

\* _build_igw_vpc_map, the fallback: the first unmatched gateway goes to
\* the primary network when that has no gateway yet
igw2vpc_fallback(m3, unmatched, primary_vpc) ==
    IF unmatched = <<>> THEN m3
    ELSE IF IsRaise(primary_vpc) THEN primary_vpc
    ELSE IF Truthy(primary_vpc) /\ ~(\E j \in 1..Len(m3.v) : m3.v[j][2] = primary_vpc)
         THEN SetKey(m3, unmatched[1], primary_vpc)
    ELSE m3

igw2vpc_unmatched(m3, igws, primary_vpc) ==
    igw2vpc_fallback(m3, Unmatched(igws, m3), primary_vpc)

\* _build_igw_vpc_map: gateway id -> vpc id
_build_igw_vpc_map(bt) ==
    igw2vpc_unmatched(gw2vpc_route_tables(Bucket(bt, T_RouteTable), "gatewayId", "igw-",
                                          igw2vpc_config(Bucket(bt, T_IGW), EmptyDict)),
                      Bucket(bt, T_IGW), _get_primary_vpc_id(bt))

\* the buckets _build_nat_vpc_map and _build_igw_vpc_map read
Touched_nat_vpc_map(bt) ==
    {T_NAT, T_RouteTable}
    \cup (IF Unmatched(Bucket(bt, T_NAT),
                       gw2vpc_route_tables(Bucket(bt, T_RouteTable), "natGatewayId", "nat-",
                                           nat2vpc_config(Bucket(bt, T_NAT), EmptyDict))) # <<>>
          THEN Touched_primary_vpc_id(bt) ELSE {})

Touched_igw_vpc_map(bt) ==
    {T_IGW, T_RouteTable}
    \cup (IF Unmatched(Bucket(bt, T_IGW),
                       gw2vpc_route_tables(Bucket(bt, T_RouteTable), "gatewayId", "igw-",
                                           igw2vpc_config(Bucket(bt, T_IGW), EmptyDict))) # <<>>
          THEN Touched_primary_vpc_id(bt) ELSE {})

\* how often _build_nat_vpc_map runs _build_subnet_vpc_map: once, inside
\* _get_primary_vpc_id, when a gateway is left unmatched
Runs_nat_vpc_map(bt) ==
    IF Unmatched(Bucket(bt, T_NAT),
                 gw2vpc_route_tables(Bucket(bt, T_RouteTable), "natGatewayId", "nat-",
                                     nat2vpc_config(Bucket(bt, T_NAT), EmptyDict))) # <<>>
    THEN 1 ELSE 0

\* the same for _build_igw_vpc_map
Runs_igw_vpc_map(bt) ==
    IF Unmatched(Bucket(bt, T_IGW),
                 gw2vpc_route_tables(Bucket(bt, T_RouteTable), "gatewayId", "igw-",
                                     igw2vpc_config(Bucket(bt, T_IGW), EmptyDict))) # <<>>
    THEN 1 ELSE 0
\* _build_rds_vpc_map, Source 3: the network of the first subnet of the
\* subnet group that the subnet map knows
RdsSubnetVpc(sg_group, s2v) ==
    LET subs == Get(sg_group, "subnets", EmptyList).v
        known == {j \in 1..Len(subs) :
                     /\ Truthy(Get(subs[j], "subnetIdentifier", EmptyStr))
                     /\ Has(s2v, Get(subs[j], "subnetIdentifier", EmptyStr).v)}
    IN  IF known = {} THEN EmptyStr
        ELSE Item(s2v, Get(subs[First(known)], "subnetIdentifier", EmptyStr).v)

\* _build_rds_vpc_map, the first loop: subnet group vpcId, else the related
\* VPC, else the network of a known subnet of the group
RECURSIVE rds2vpc_sources(_, _, _)
rds2vpc_sources(dbs, s2v, rds2vpc) ==
    IF dbs = <<>> THEN rds2vpc
    ELSE LET item == Head(dbs)
             rid == Item(item, "resourceId").v
             sg_group == DbSubnetGroup(ConfigOrEmpty(item))
             vid == Get(sg_group, "vpcId", EmptyStr)
             rel_vpc == _get_related_vpc(item)
             sub_vpc == RdsSubnetVpc(sg_group, s2v)
         IN  rds2vpc_sources(Tail(dbs), s2v,
                 IF Truthy(vid) THEN SetKey(rds2vpc, rid, vid)
                 ELSE IF Truthy(rel_vpc) THEN SetKey(rds2vpc, rid, rel_vpc)
                 ELSE IF sub_vpc # EmptyStr THEN SetKey(rds2vpc, rid, sub_vpc)
                 ELSE rds2vpc)

\* _build_rds_vpc_map, the fallback: unmapped databases go to the primary
\* network, which is looked up only when some database was mapped
rds2vpc_fallback(m1, dbs, primary) ==
    IF ~Truthy(m1) THEN m1
    ELSE IF IsRaise(primary) THEN primary
    ELSE IF Truthy(primary) THEN SetAll(m1, Unmatched(dbs, m1), primary)
    ELSE m1

\* _build_rds_vpc_map: database id -> vpc id
_build_rds_vpc_map(bt) ==
    rds2vpc_fallback(rds2vpc_sources(Bucket(bt, T_RDS), _build_subnet_vpc_map(bt), EmptyDict),
                     Bucket(bt, T_RDS), _get_primary_vpc_id(bt))

\* the buckets _build_rds_vpc_map reads
Touched_rds_vpc_map(bt) ==
    Touched_subnet_vpc_map \cup {T_RDS}
    \cup (IF Truthy(rds2vpc_sources(Bucket(bt, T_RDS), _build_subnet_vpc_map(bt), EmptyDict))
          THEN Touched_primary_vpc_id(bt) ELSE {})

\* how often _build_rds_vpc_map runs _build_subnet_vpc_map: at line 669
\* and, inside _get_primary_vpc_id, when the sources mapped a database
Runs_rds_vpc_map(bt) ==
    IF Truthy(rds2vpc_sources(Bucket(bt, T_RDS), _build_subnet_vpc_map(bt), EmptyDict))
    THEN 2 ELSE 1

-----------------------------------------------------------------------------
(* Topology Query API *)

\* a variant that asks the relationships before the configuration
SubnetItemVpc_related_first(item, cfg, subnet_vpc_map) ==
    LET v1 == _get_related_vpc(item)
        v2 == IF Truthy(v1) THEN v1 ELSE Get(cfg, "vpcId", EmptyStr)
    IN  IF Truthy(v2) THEN v2 ELSE Get(subnet_vpc_map, Item(item, "resourceId").v, EmptyStr)

\* get_subnets_for_vpc: the network of a subnet item
SubnetItemVpc(item, cfg, subnet_vpc_map) ==
    LET v1 == Get(cfg, "vpcId", EmptyStr)
        v2 == IF Truthy(v1) THEN v1 ELSE _get_related_vpc(item)
    IN  IF Truthy(v2) THEN v2 ELSE Get(subnet_vpc_map, Item(item, "resourceId").v, EmptyStr)

\* get_subnets_for_vpc: the first cidrBlock of a cidrBlockAssociationSet,
\* which is parsed when it is text ([] when the parse raises)
AssociationSetCidr(assocs0) ==
    LET assocs == IF IsStr(assocs0)
                  THEN (IF IsRaise(json_loads(assocs0.v)) THEN EmptyList
                        ELSE json_loads(assocs0.v))
                  ELSE assocs0
        hits == {j \in 1..Len(assocs.v) :
                    IsDict(assocs.v[j]) /\ Truthy(Get(assocs.v[j], "cidrBlock", EmptyStr))}
    IN  IF hits = {} THEN EmptyStr ELSE Get(assocs.v[First(hits)], "cidrBlock", EmptyStr)

\* a variant in which the heuristic map is asked before the resource name
SubnetCidr_heuristic_before_name(item, cfg, subnet_cidr_map) ==
    LET c1 == Get(cfg, "cidrBlock", EmptyStr)
        supp == Get(item, "supplementaryConfiguration", EmptyDict)
        c2 == IF Truthy(c1) \/ ~IsDict(supp) THEN c1
              ELSE IF Truthy(Get(supp, "cidrBlock", EmptyStr)) THEN Get(supp, "cidrBlock", EmptyStr)
              ELSE AssociationSetCidr(Get(supp, "cidrBlockAssociationSet", EmptyList))
        rn == Get(item, "resourceName", EmptyStr)
        c3 == IF Truthy(c2) THEN c2 ELSE Get(subnet_cidr_map, Item(item, "resourceId").v, EmptyStr)
    IN  IF ~Truthy(c3) /\ Contains(rn.v, "/") THEN rn ELSE c3

\* get_subnets_for_vpc: the CIDR of a subnet item
SubnetCidr(item, cfg, subnet_cidr_map) ==
    LET c1 == Get(cfg, "cidrBlock", EmptyStr)
        supp == Get(item, "supplementaryConfiguration", EmptyDict)
        c2 == IF Truthy(c1) \/ ~IsDict(supp) THEN c1
              ELSE IF Truthy(Get(supp, "cidrBlock", EmptyStr)) THEN Get(supp, "cidrBlock", EmptyStr)
              ELSE AssociationSetCidr(Get(supp, "cidrBlockAssociationSet", EmptyList))
        rn == Get(item, "resourceName", EmptyStr)
        c3 == IF ~Truthy(c2) /\ Contains(rn.v, "/") THEN rn ELSE c2
    IN  IF Truthy(c3) THEN c3 ELSE Get(subnet_cidr_map, Item(item, "resourceId").v, EmptyStr)

\* get_subnets_for_vpc: the tier from the Name tag
NameHint(tags) ==
    LET name == LowerName(Get(tags, "Name", EmptyStr).v) IN
    IF Contains(name, "public") THEN Public
    ELSE IF Contains(name, "isolated") \/ Contains(name, "db") \/ Contains(name, "data")
         THEN Isolated
    ELSE IF Contains(name, "private") THEN Private
    ELSE EmptyStr

\* a variant that asks the tier map before the Tier tag
SubnetTier_map_first(item, cfg, tier_map) ==
    LET tags == Get(item, "tags", EmptyDict)
        t1 == Get(tier_map, Item(item, "resourceId").v, EmptyStr)
        t2 == IF Truthy(t1) THEN t1 ELSE Get(tags, "Tier", EmptyStr)
        t3 == IF Truthy(t2) THEN t2 ELSE NameHint(tags)
        t4 == IF Truthy(t3) THEN t3
              ELSE IF Truthy(Get(cfg, "mapPublicIpOnLaunch", None)) THEN Public
              ELSE EmptyStr
    IN  IF Truthy(t4) THEN t4 ELSE Get(tier_map, "_main", Private)

\* get_subnets_for_vpc: Tier tag > tier map > name hint > mapPublicIpOnLaunch
\* > default
SubnetTier(item, cfg, tier_map) ==
    LET tags == Get(item, "tags", EmptyDict)
        t1 == Get(tags, "Tier", EmptyStr)
        t2 == IF Truthy(t1) THEN t1 ELSE Get(tier_map, Item(item, "resourceId").v, EmptyStr)
        t3 == IF Truthy(t2) THEN t2 ELSE NameHint(tags)
        t4 == IF Truthy(t3) THEN t3
              ELSE IF Truthy(Get(cfg, "mapPublicIpOnLaunch", None)) THEN Public
              ELSE EmptyStr
    IN  IF Truthy(t4) THEN t4 ELSE Get(tier_map, "_main", Private)

\* get_subnets_for_vpc: the record appended for one subnet item
SubnetRecord(item, cfg, tier_map, subnet_cidr_map) ==
    LET sid == Item(item, "resourceId")
        az == Get(cfg, "availabilityZone", EmptyStr)
    IN  D(<< <<"id", sid>>,
             <<"name", Get(Get(item, "tags", EmptyDict), "Name", sid)>>,
             <<"cidr", SubnetCidr(item, cfg, subnet_cidr_map)>>,
             <<"az", IF Truthy(az) THEN az ELSE Get(item, "availabilityZone", EmptyStr)>>,
             <<"tier", SubnetTier(item, cfg, tier_map)>> >>)

\* get_subnets_for_vpc: the loop over the subnet items
RECURSIVE subnets_of(_, _, _, _, _)
subnets_of(its, vpc_id, tier_map, subnet_vpc_map, subnet_cidr_map) ==
    IF its = <<>> THEN <<>>
    ELSE (IF SubnetItemVpc(Head(its), ConfigOrEmpty(Head(its)), subnet_vpc_map) # vpc_id THEN <<>>
          ELSE <<SubnetRecord(Head(its), ConfigOrEmpty(Head(its)), tier_map, subnet_cidr_map)>>)
         \o subnets_of(Tail(its), vpc_id, tier_map, subnet_vpc_map, subnet_cidr_map)

get_subnets_for_vpc(bt, vpc_id) ==
    L(subnets_of(Bucket(bt, T_Subnet), vpc_id, _build_subnet_tier_map(bt, vpc_id),
                 _build_subnet_vpc_map(bt), _build_subnet_cidr_map(bt)))

Touched_get_subnets_for_vpc(bt, vpc_id) ==
    Touched_subnet_tier_map(bt, vpc_id) \cup Touched_subnet_vpc_map \cup {T_Subnet}

\* how often get_subnets_for_vpc runs _build_subnet_vpc_map: inside the
\* tier map and at line 764
Runs_get_subnets_for_vpc(bt, vpc_id) == Runs_subnet_tier_map(bt, vpc_id) + 1

\* get_igw_for_vpc: the loop over the gateways, returning at the first one
\* the map gives to the network; None when the loop ends
RECURSIVE igw_of(_, _, _)
igw_of(igws, igw_vpc_map, vpc_id) ==
    IF igws = <<>> THEN None
    ELSE IF Get(igw_vpc_map, Item(Head(igws), "resourceId").v, None) = vpc_id
         THEN D(<< <<"id", Item(Head(igws), "resourceId")>>,
                   <<"name", Get(Get(Head(igws), "tags", EmptyDict), "Name",
                                 Item(Head(igws), "resourceId"))>> >>)
         ELSE igw_of(Tail(igws), igw_vpc_map, vpc_id)

igw_answer(igws, igw_vpc_map, vpc_id) ==
    IF IsRaise(igw_vpc_map) THEN igw_vpc_map ELSE igw_of(igws, igw_vpc_map, vpc_id)

get_igw_for_vpc(bt, vpc_id) ==
    igw_answer(Bucket(bt, T_IGW), _build_igw_vpc_map(bt), vpc_id)

\* get_nat_gateways_for_vpc: addrs[0].get("publicIp", "") if addrs else "";
\* a first address that is no dict has no get
NatPublicIp(cfg) ==
    LET addrs == Get(cfg, "natGatewayAddresses", EmptyList) IN
    IF ~Truthy(addrs) THEN EmptyStr
    ELSE IF ~IsDict(addrs.v[1]) THEN Raise("AttributeError")
    ELSE Get(addrs.v[1], "publicIp", EmptyStr)

\* get_nat_gateways_for_vpc: the loop over the NAT gateways; nats is the
\* list so far, or the exception the loop ended with
RECURSIVE nats_of(_, _, _, _)
nats_of(its, vpc_id, nat_vpc_map, nats) ==
    IF its = <<>> \/ IsRaise(nats) THEN nats
    ELSE LET item == Head(its)
             cfg == ConfigOrEmpty(item)
             rid == Item(item, "resourceId")
         IN  nats_of(Tail(its), vpc_id, nat_vpc_map,
                 IF Get(nat_vpc_map, rid.v, None) # vpc_id THEN nats
                 ELSE IF IsRaise(NatPublicIp(cfg)) THEN NatPublicIp(cfg)
                 ELSE L(Append(nats.v,
                               D(<< <<"id", rid>>,
                                    <<"name", Get(Get(item, "tags", EmptyDict), "Name", rid)>>,
                                    <<"subnet_id", Get(cfg, "subnetId", EmptyStr)>>,
                                    <<"public_ip", NatPublicIp(cfg)>> >>))))

nats_answer(its, vpc_id, nat_vpc_map) ==
    IF IsRaise(nat_vpc_map) THEN nat_vpc_map ELSE nats_of(its, vpc_id, nat_vpc_map, EmptyList)

get_nat_gateways_for_vpc(bt, vpc_id) ==
    nats_answer(Bucket(bt, T_NAT), vpc_id, _build_nat_vpc_map(bt))

\* get_sg_connections: the loop over the userIdGroupPairs of one rule;
\* pair["groupId"] of a pair without it raises
RECURSIVE connections_of_pairs(_, _, _, _, _)
connections_of_pairs(pairs, rule, sg_id, sg_name, connections) ==
    IF pairs = <<>> \/ IsRaise(connections) THEN connections
    ELSE connections_of_pairs(Tail(pairs), rule, sg_id, sg_name,
             IF ~Has(Head(pairs), "groupId") THEN Raise("KeyError")
             ELSE L(Append(connections.v,
                           D(<< <<"from_sg", Item(Head(pairs), "groupId")>>,
                                <<"to_sg", sg_id>>,
                                <<"to_sg_name", sg_name>>,
                                <<"port", Get(rule, "fromPort", EmptyStr)>>,
                                <<"protocol", Get(rule, "ipProtocol", EmptyStr)>>,
                                <<"description", Get(Head(pairs), "description", EmptyStr)>> >>))))

\* get_sg_connections: the loop over the ipPermissions of one group
RECURSIVE connections_of_rules(_, _, _, _)
connections_of_rules(rules, sg_id, sg_name, connections) ==
    IF rules = <<>> \/ IsRaise(connections) THEN connections
    ELSE connections_of_rules(Tail(rules), sg_id, sg_name,
             IF ~IsDict(Head(rules)) THEN Raise("AttributeError")
             ELSE connections_of_pairs(Get(Head(rules), "userIdGroupPairs", EmptyList).v,
                                       Head(rules), sg_id, sg_name, connections))

\* get_sg_connections: the loop over the security groups; cfg.get of a
\* configuration that is no dict raises
RECURSIVE connections_of_groups(_, _)
connections_of_groups(sgs, connections) ==
    IF sgs = <<>> \/ IsRaise(connections) THEN connections
    ELSE LET cfg == Get(Head(sgs), "configuration", EmptyDict) IN
         connections_of_groups(Tail(sgs),
             IF ~IsDict(cfg) THEN Raise("AttributeError")
             ELSE connections_of_rules(Get(cfg, "ipPermissions", EmptyList).v,
                                       Get(cfg, "groupId", Item(Head(sgs), "resourceId")),
                                       Get(cfg, "groupName", EmptyStr), connections))

get_sg_connections(bt) == connections_of_groups(Bucket(bt, T_SG), EmptyList)

\* a variant that leaves a string out
_normalize_ip_ranges_mappings_only(ip_ranges) ==
    SelectSeq(ip_ranges, IsDict)

\* _normalize_ip_ranges: a string becomes {"cidrIp": string}, anything
\* else stays
_normalize_ip_ranges(ip_ranges) ==
    [i \in 1..Len(ip_ranges) |->
        IF IsStr(ip_ranges[i]) THEN D(<< <<"cidrIp", ip_ranges[i]>> >>) ELSE ip_ranges[i]]

\* get_security_groups_for_vpc: the loop over the security groups
RECURSIVE security_groups_of(_, _)
security_groups_of(its, vpc_id) ==
    IF its = <<>> THEN <<>>
    ELSE LET item == Head(its)
             cfg == ConfigOrEmpty(item)
             v1 == Get(cfg, "vpcId", EmptyStr)
             item_vpc == IF Truthy(v1) THEN v1 ELSE _get_related_vpc(item)
         IN  (IF item_vpc = vpc_id
              THEN << D(<< <<"id", Get(cfg, "groupId", Item(item, "resourceId"))>>,
                           <<"name", Get(cfg, "groupName", EmptyStr)>>,
                           <<"description", Get(cfg, "description", EmptyStr)>>,
                           <<"ingress", Get(cfg, "ipPermissions", EmptyList)>>,
                           <<"egress", Get(cfg, "ipPermissionsEgress", EmptyList)>> >>) >>
              ELSE <<>>)
             \o security_groups_of(Tail(its), vpc_id)

get_security_groups_for_vpc(bt, vpc_id) == L(security_groups_of(Bucket(bt, T_SG), vpc_id))

\* get_external_sg_rules: the loop over the normalised ipRanges of a rule;
\* ip_range.get of a range that is no dict raises
RECURSIVE external_of_ranges(_, _, _, _)
external_of_ranges(ranges, rule, sg, external_rules) ==
    IF ranges = <<>> \/ IsRaise(external_rules) THEN external_rules
    ELSE external_of_ranges(Tail(ranges), rule, sg,
             IF ~IsDict(Head(ranges)) THEN Raise("AttributeError")
             ELSE IF Get(Head(ranges), "cidrIp", None) = S("0.0.0.0/0")
             THEN L(Append(external_rules.v,
                      D(<< <<"sg_id", Item(sg, "id")>>,
                           <<"sg_name", Item(sg, "name")>>,
                           <<"direction", S("INBOUND")>>,
                           <<"protocol", Get(rule, "ipProtocol", EmptyStr)>>,
                           <<"from_port", Get(rule, "fromPort", EmptyStr)>>,
                           <<"to_port", Get(rule, "toPort", EmptyStr)>>,
                           <<"source", S("0.0.0.0/0")>>,
                           <<"description", Get(Head(ranges), "description", EmptyStr)>> >>)))
             ELSE external_rules)

\* get_external_sg_rules: the ranges of one rule, normalised
external_of_rule(rule, sg, external_rules) ==
    external_of_ranges(_normalize_ip_ranges(Get(rule, "ipRanges", EmptyList).v),
                       rule, sg, external_rules)

\* get_external_sg_rules: the loop over the ingress rules of one group;
\* rule.get of a rule that is no dict raises
RECURSIVE external_of_rules(_, _, _)
external_of_rules(rules, sg, external_rules) ==
    IF rules = <<>> \/ IsRaise(external_rules) THEN external_rules
    ELSE external_of_rules(Tail(rules), sg,
             IF ~IsDict(Head(rules)) THEN Raise("AttributeError")
             ELSE external_of_rule(Head(rules), sg, external_rules))

\* get_external_sg_rules: the loop over the security groups of the network
RECURSIVE external_of_groups(_, _)
external_of_groups(sgs, external_rules) ==
    IF sgs = <<>> \/ IsRaise(external_rules) THEN external_rules
    ELSE external_of_groups(Tail(sgs),
             external_of_rules(IF IsList(Item(Head(sgs), "ingress"))
                               THEN Item(Head(sgs), "ingress").v ELSE <<>>,
                               Head(sgs), external_rules))

get_external_sg_rules(bt, vpc_id) ==
    external_of_groups(security_groups_of(Bucket(bt, T_SG), vpc_id), EmptyList)

-----------------------------------------------------------------------------
(* Snapshots *)

NumVpcs == 2

Vpcs == {AllVpcIds[i] : i \in 1..NumVpcs}

MkItem(type, id, fields) ==
    D(<< <<"resourceType", S(type)>>, <<"resourceId", S(id)>> >> \o fields)

Rel(type, id) == D(<< <<"resourceType", S(type)>>, <<"resourceId", S(id)>> >>)

\* the pairs whose value is not the empty string: a field without a value
\* is left out of the snapshot
RECURSIVE Present(_)
Present(pairs) ==
    IF pairs = <<>> THEN <<>>
    ELSE (IF Head(pairs)[2] = EmptyStr THEN <<>> ELSE <<Head(pairs)>>) \o Present(Tail(pairs))

Cfg(pairs) == D(Present(pairs))

WithCfg(pairs) == << <<"configuration", Cfg(pairs)>> >>

VpcItems == [i \in 1..NumVpcs |-> MkItem(T_VPC, AllVpcIds[i], WithCfg(<<>>))]

VpcOrNone == {""} \cup Vpcs

\* one subnet, sub-1, and every kind of evidence of its network: each kind
\* absent or naming any of the networks; the load balancer names sub-2
\* before sub-1, a second instance (dup) contradicts the first
OwnerDoc(own, rel, ec2, nat, alb, rtb, dup) ==
    VpcItems
    \o << MkItem(T_Subnet, "sub-1",
                 WithCfg(<< <<"VpcId", S(own)>>, <<"AvailabilityZone", S("az-a")>> >>)
                 \o << <<"relationships",
                         L(<<Rel(T_RouteTable, "rtb-9")>>
                           \o (IF rel = "" THEN <<>> ELSE <<Rel(T_VPC, rel)>>))>> >>) >>
    \o (IF ec2 = "" THEN <<>>
        ELSE << MkItem(T_Instance, "i-1",
                       WithCfg(<< <<"subnetId", S("sub-1")>>, <<"vpcId", S(ec2)>> >>)) >>)
    \o (IF dup THEN << MkItem(T_Instance, "i-2",
                              WithCfg(<< <<"subnetId", S("sub-1")>>,
                                         <<"vpcId", S(AllVpcIds[NumVpcs])>> >>)) >>
        ELSE <<>>)
    \o (IF nat = "" THEN <<>>
        ELSE << MkItem(T_NAT, "nat-1",
                       WithCfg(<< <<"subnetId", S("sub-1")>>, <<"vpcId", S(nat)>> >>)) >>)
    \o (IF alb = "" THEN <<>>
        ELSE << MkItem(T_ALB, "alb-1",
                       WithCfg(<< <<"vpcId", S(alb)>>,
                                  <<"availabilityZones",
                                    L(<< Cfg(<< <<"subnetId", S("sub-2")>> >>),
                                         Cfg(<< <<"subnetId", S("sub-1")>> >>) >>)>> >>)) >>)
    \o (IF rtb = "" THEN <<>>
        ELSE << MkItem(T_RouteTable, "rtb-1",
                       WithCfg(<< <<"associations",
                                    L(<< Cfg(<< <<"subnetId", S("sub-1")>> >>) >>)>> >>)
                       \o << <<"relationships", L(<<Rel(T_VPC, rtb)>>)>> >>) >>)

OwnerDocs ==
    {OwnerDoc(own, rel, ec2, nat, alb, rtb, FALSE) :
        own \in VpcOrNone, rel \in VpcOrNone, ec2 \in VpcOrNone, nat \in VpcOrNone,
        alb \in VpcOrNone, rtb \in VpcOrNone}
    \cup {OwnerDoc(own, rel, ec2, nat, alb, rtb, TRUE) :
             own \in VpcOrNone, rel \in VpcOrNone, ec2 \in Vpcs, nat \in VpcOrNone,
             alb \in VpcOrNone, rtb \in VpcOrNone}

\* a raw tag list, [{key, value}, ...], of the tags that have a value
Tag(k, val) == D(<< <<"key", S(k)>>, <<"value", S(val)>> >>)

Tags(name, tier) ==
    << <<"tags", L((IF name = "" THEN <<>> ELSE <<Tag("Name", name)>>)
                   \o (IF tier = "" THEN <<>> ELSE <<Tag("Tier", tier)>>))>> >>

\* a subnet item of network vpc in zone az
SubnetItem(id, vpc, az, name, tier, map_public) ==
    MkItem(T_Subnet, id,
           WithCfg(<< <<"VpcId", S(vpc)>>, <<"AvailabilityZone", S(az)>>,
                      <<"mapPublicIpOnLaunch", IF map_public THEN B(TRUE) ELSE EmptyStr>> >>)
           \o Tags(name, tier))

LocalRoute == D(<< <<"DestinationCidrBlock", S("10.0.0.0/16")>>, <<"GatewayId", S("local")>> >>)

\* the routes of a table of each kind: a default route to an internet
\* gateway, to a NAT gateway, to another target, or no default route
RoutesOf(kind, dest_key) ==
    <<LocalRoute>>
    \o CASE kind = "igw" -> << D(<< <<dest_key, S("0.0.0.0/0")>>, <<"GatewayId", S("igw-1")>> >>) >>
         [] kind = "nat" -> << D(<< <<dest_key, S("0.0.0.0/0")>>, <<"natGatewayId", S("nat-1")>> >>) >>
         [] kind = "other" -> << D(<< <<dest_key, S("0.0.0.0/0")>>, <<"GatewayId", S("vgw-1")>> >>) >>
         [] kind = "none" -> <<>>

RouteKinds == {"igw", "nat", "other", "none"}

MainAssociation == D(<< <<"Main", B(TRUE)>> >>)

SubnetAssociation(sid) == D(<< <<"SubnetId", S(sid)>>, <<"Main", B(FALSE)>> >>)

\* a route table item; alt picks the second spelling the code accepts for
\* its routes, destinations and associations
RouteTableItem(id, vpc, kind, assocs, alt) ==
    MkItem(T_RouteTable, id,
           WithCfg(<< <<"VpcId", S(vpc)>>,
                      <<IF alt THEN "routeSet" ELSE "Routes",
                        L(RoutesOf(kind, IF alt THEN "destinationCidr" ELSE "DestinationCidrBlock"))>>,
                      <<IF alt THEN "routeTableAssociationSet" ELSE "Associations", L(assocs)>> >>))

NatItem(id, vpc, sub) ==
    MkItem(T_NAT, id, WithCfg(<< <<"vpcId", S(vpc)>>, <<"subnetId", S(sub)>> >>))

Zones(subs) == L([i \in 1..Len(subs) |-> D(<< <<"subnetId", S(subs[i])>> >>)])

AlbItem(id, vpc, scheme, subs) ==
    MkItem(T_ALB, id,
           WithCfg(<< <<"vpcId", S(vpc)>>, <<"scheme", S(scheme)>>,
                      <<"availabilityZones", Zones(subs)>> >>))

RdsItem(id, subs) ==
    MkItem(T_RDS, id,
           WithCfg(<< <<"DBInstanceClass", S("db.t3.micro")>>,
                      <<"DBSubnetGroup",
                        D(<< <<"Subnets",
                               L([i \in 1..Len(subs) |->
                                     D(<< <<"SubnetIdentifier", S(subs[i])>> >>)])>> >>)>> >>))

\* a database whose subnet group names its network and no subnet, or that
\* has no subnet group at all (unresolved)
DbItem(id, owner) ==
    MkItem(T_RDS, id,
           WithCfg(<< <<"DBSubnetGroup",
                        IF owner = "unresolved" THEN EmptyStr
                        ELSE D(<< <<"VpcId", S(owner)>> >>)>> >>))

InstanceItem(id, sub) ==
    MkItem(T_Instance, id, WithCfg(<< <<"subnetId", S(sub)>>, <<"privateIpAddress", S("10.0.1.5")>> >>))

IgwItem(id) == MkItem(T_IGW, id, WithCfg(<<>>))

NumSubnets == 3

\* the subnets of network vpc-1 beyond sub-1 and sub-2, all in zone az-b
MoreSubnets == [i \in 1..(NumSubnets - 2) |-> SubnetItem(AllSubnetIds[i + 2], "vpc-1", "az-b", "", "", FALSE)]

\* the tier hints an unassociated subnet can carry
Hints == {"none", "name", "map", "tag", "dmz", "nat"}

\* Routing: route table rtb-1 of kind k1 belongs to vpc-1 and serves sub-1,
\* is the main table, or both; rtb-2, when present, serves sub-3 and
\* belongs to network o2.  sub-2 has no association and carries hint h (a
\* Name tag, mapPublicIpOnLaunch, a Tier tag, or a NAT gateway placed in it).
RoutingDoc(k1, a1, k2, o2, alt, h) ==
    VpcItems
    \o << SubnetItem("sub-1", "vpc-1", "az-a", "", "", FALSE),
          SubnetItem("sub-2", "vpc-1", "az-a",
                     IF h = "name" THEN "Public-A" ELSE "",
                     CASE h = "tag" -> "Isolated" [] h = "dmz" -> "DMZ" [] OTHER -> "",
                     h = "map") >>
    \o MoreSubnets
    \o << RouteTableItem("rtb-1", "vpc-1", k1,
                         CASE a1 = "subnet" -> <<SubnetAssociation("sub-1")>>
                           [] a1 = "main" -> <<MainAssociation>>
                           [] a1 = "both" -> <<MainAssociation, SubnetAssociation("sub-1")>>,
                         alt) >>
    \o (IF k2 = "absent" THEN <<>>
        ELSE <<RouteTableItem("rtb-2", o2, k2, <<SubnetAssociation("sub-3")>>, alt)>>)
    \o (IF h = "nat" THEN <<NatItem("nat-1", "vpc-1", "sub-2")>> ELSE <<>>)

RoutingDocs ==
    {RoutingDoc(k1, a1, k2, o2, alt, h) :
        k1 \in RouteKinds, a1 \in {"subnet", "main", "both"}, k2 \in {"absent", "igw", "none"},
        o2 \in Vpcs, alt \in BOOLEAN, h \in Hints}

\* Service placement: no route table serves a subnet (a main table may
\* exist); a NAT gateway in sub-1, in sub-2 or in a subnet of vpc-2, a load
\* balancer over sub-1 and sub-2, a database over some of the subnets
ServiceDoc(m, n, a, r, t) ==
    VpcItems
    \o << SubnetItem("sub-1", "vpc-1", "az-a", "", "", FALSE),
          SubnetItem("sub-2", "vpc-1", "az-a", "", t, FALSE) >>
    \o MoreSubnets
    \o (IF m = "absent" THEN <<>>
        ELSE <<RouteTableItem("rtb-1", "vpc-1", m, <<MainAssociation>>, FALSE)>>)
    \o (CASE n = "" -> <<>>
          [] n = "sub-9" -> <<NatItem("nat-1", "vpc-2", "sub-9")>>
          [] OTHER -> <<NatItem("nat-1", "vpc-1", n)>>)
    \o (IF a = "absent" THEN <<>> ELSE <<AlbItem("alb-1", "vpc-1", a, <<"sub-1", "sub-2">>)>>)
    \o (CASE r = "absent" -> <<>>
          [] r = "both" -> <<RdsItem("db-1", <<"sub-1", "sub-2">>)>>
          [] OTHER -> <<RdsItem("db-1", <<r>>)>>)

ServiceDocs ==
    {ServiceDoc(m, n, a, r, t) :
        m \in {"absent", "igw", "none"}, n \in {"", "sub-1", "sub-2", "sub-9"},
        a \in {"absent", "internet-facing", "internal"},
        r \in {"absent", "sub-1", "sub-2", "both"}, t \in {"", "DMZ"}}

\* Structural: no routing and no placement evidence.  sub-1 and sub-2 share
\* zone az-a and are enumerated in either order; the further subnets are in
\* az-a too (same) or in az-b; instances sit in the subnets of ec2; an
\* internet gateway and a NAT gateway may exist without saying where; a
\* database may exist without saying where (unplaced) or in network vpc-2
StructuralDoc(swap, same, ec2, igw, nat, rds) ==
    VpcItems
    \o (IF swap
        THEN << SubnetItem("sub-2", "vpc-1", "az-a", "", "", FALSE),
                SubnetItem("sub-1", "vpc-1", "az-a", "", "", FALSE) >>
        ELSE << SubnetItem("sub-1", "vpc-1", "az-a", "", "", FALSE),
                SubnetItem("sub-2", "vpc-1", "az-a", "", "", FALSE) >>)
    \o [i \in 1..(NumSubnets - 2) |->
           SubnetItem(AllSubnetIds[i + 2], "vpc-1", IF same THEN "az-a" ELSE "az-b", "", "", FALSE)]
    \o [i \in 1..Len(ec2) |-> InstanceItem(IF i = 1 THEN "i-1" ELSE "i-2", ec2[i])]
    \o (IF igw THEN <<IgwItem("igw-1")>> ELSE <<>>)
    \o (IF nat THEN <<NatItem("nat-1", "", "")>> ELSE <<>>)
    \o (CASE rds = "absent" -> <<>>
          [] rds = "unplaced" -> <<RdsItem("db-1", <<>>)>>
          [] rds = "vpc-2" -> <<DbItem("db-1", "vpc-2")>>)

StructuralDocs ==
    {StructuralDoc(swap, same, ec2, igw, nat, rds) :
        swap \in BOOLEAN, same \in BOOLEAN,
        ec2 \in {<<>>, <<"sub-1">>, <<"sub-2">>, <<"sub-1", "sub-2">>, <<"sub-3">>},
        igw \in BOOLEAN, nat \in BOOLEAN, rds \in {"absent", "unplaced", "vpc-2"}}

\* Hinted: sub-1 carries hint h (a Tier tag, a Name with a tier word, or
\* mapPublicIpOnLaunch) and a stage of the cascade classifies it as Public:
\* a route table with a default route to the internet gateway serves it, a
\* NAT gateway sits in it, or it is the subnet without an instance of its
\* zone while an internet gateway exists
HintedDoc(stage, h) ==
    VpcItems
    \o << SubnetItem("sub-1", "vpc-1", "az-a",
                     IF h = "name" THEN "DB-1" ELSE "",
                     CASE h = "tag" -> "Isolated" [] h = "dmz" -> "DMZ" [] OTHER -> "",
                     h = "map"),
          SubnetItem("sub-2", "vpc-1", "az-a", "", "", FALSE) >>
    \o (CASE stage = "routing" ->
               <<RouteTableItem("rtb-1", "vpc-1", "igw", <<SubnetAssociation("sub-1")>>, FALSE)>>
          [] stage = "service" -> <<NatItem("nat-1", "vpc-1", "sub-1")>>
          [] stage = "structural" -> <<InstanceItem("i-1", "sub-2"), IgwItem("igw-1")>>)

HintedDocs ==
    {HintedDoc(stage, h) :
        stage \in {"routing", "service", "structural"}, h \in {"tag", "dmz", "name", "map"}}

\* the snapshots for the tier of a subnet with a hint: the hinted ones,
\* those of service placement, and those of routing with one route table
HintDocs ==
    HintedDocs \cup ServiceDocs
    \cup {RoutingDoc(k1, a1, "absent", "vpc-1", FALSE, h) :
             k1 \in RouteKinds, a1 \in {"subnet", "main", "both"}, h \in Hints}

TierDocs == RoutingDocs \cup ServiceDocs \cup StructuralDocs

\* Normalisation: one item whose configuration is absent, null, structured
\* (PascalCase keys, nested, two keys that meet after rewriting) or text
\* (that parses to a mapping, to a list, to a string, or does not parse),
\* with tags as a list of pairs in either casing, as a mapping, or as
\* something else
ConfigShapes ==
    {None,
     EmptyDict,
     D(<< <<"VpcId", S("vpc-1")>>, <<"vpcId", S("vpc-2")>> >>),
     D(<< <<"DBInstanceClass", S("db.t3.micro")>>,
          <<"DBSubnetGroup",
            D(<< <<"Subnets", L(<< D(<< <<"SubnetIdentifier", S("sub-1")>> >>) >>)>> >>)>> >>),
     S("{\"VpcId\": \"vpc-1\"}"),
     S("{}"),
     S("[]"),
     S("\"{\\\"VpcId\\\": \\\"vpc-1\\\"}\""),
     S("{not json"),
     S("")}

TagShapes ==
    {None,
     S("web"),
     L(<< Tag("Name", "web"), D(<< <<"Key", S("Tier")>>, <<"Value", S("Public")>> >>),
          D(<< <<"value", S("orphan")>> >>), Tag("Name", "DB-1") >>),
     D(<< <<"Name", S("web")>> >>)}

NormDoc(cfg, with_cfg, tags, with_tags, rels) ==
    << MkItem(T_SG, "sg-1",
              (IF with_cfg THEN << <<"configuration", cfg>> >> ELSE <<>>)
              \o (IF with_tags THEN << <<"tags", tags>> >> ELSE <<>>)
              \o << <<"relationships", rels>> >>) >>

NormDocs ==
    {NormDoc(cfg, with_cfg, tags, with_tags, rels) :
        cfg \in ConfigShapes, with_cfg \in BOOLEAN, tags \in TagShapes, with_tags \in BOOLEAN,
        rels \in {None, L(<<Rel(T_VPC, "vpc-1")>>)}}

\* the characters keys are spelled with: two capitals, a small letter and a
\* capital that has no small form
KeyAlphabet == {"A", "B", "c", "MathA"}

MaxKeyLen == 4

RECURSIVE KeysOfLen(_)
KeysOfLen(n) ==
    IF n = 0 THEN {<<>>}
    ELSE {Append(k, c) : k \in KeysOfLen(n - 1), c \in KeyAlphabet}

KeyChars == UNION {KeysOfLen(n) : n \in 0..MaxKeyLen}

\* Queries: security groups whose configuration is structured (with a
\* group pair that has a groupId or lacks it) or text that did not parse;
\* a NAT gateway whose address list is absent, well-formed or a list of
\* strings; an internet gateway; the subnets of a structural snapshot
SgItem(shape) ==
    MkItem(T_SG, "sg-1",
           << <<"configuration",
                CASE shape = "pairs" ->
                       D(<< <<"GroupId", S("sg-1")>>, <<"vpcId", S("vpc-1")>>,
                            <<"IpPermissions",
                              L(<< D(<< <<"fromPort", S("443")>>,
                                        <<"UserIdGroupPairs",
                                          L(<< D(<< <<"GroupId", S("sg-2")>> >>) >>)>> >>) >>)>> >>)
                  [] shape = "no-group-id" ->
                       D(<< <<"GroupId", S("sg-1")>>, <<"vpcId", S("vpc-1")>>,
                            <<"ipPermissions",
                              L(<< D(<< <<"userIdGroupPairs",
                                          L(<< D(<< <<"description", S("web")>> >>) >>)>> >>) >>)>> >>)
                  [] shape = "text" -> S("{not json")
                  [] shape = "empty" -> EmptyDict>> >>)

NatWithAddresses(shape) ==
    MkItem(T_NAT, "nat-1",
           WithCfg(<< <<"vpcId", S("vpc-1")>>,
                      <<"natGatewayAddresses",
                        CASE shape = "dicts" -> L(<< D(<< <<"publicIp", S("10.0.2.7")>> >>) >>)
                          [] shape = "strings" -> L(<<S("10.0.2.7")>>)
                          [] shape = "none" -> EmptyStr>> >>))

QueryDoc(sg, nat, igw, swap, ec2) ==
    VpcItems
    \o (IF swap
        THEN << SubnetItem("sub-2", "vpc-1", "az-a", "", "", FALSE),
                SubnetItem("sub-1", "vpc-1", "az-a", "", "", FALSE) >>
        ELSE << SubnetItem("sub-1", "vpc-1", "az-a", "", "", FALSE),
                SubnetItem("sub-2", "vpc-1", "az-a", "", "", FALSE) >>)
    \o (IF ec2 THEN <<InstanceItem("i-1", "sub-1")>> ELSE <<>>)
    \o (IF sg = "absent" THEN <<>> ELSE <<SgItem(sg)>>)
    \o (IF nat = "absent" THEN <<>> ELSE <<NatWithAddresses(nat)>>)
    \o (IF igw THEN <<IgwItem("igw-1")>> ELSE <<>>)

QueryDocs ==
    {QueryDoc(sg, nat, igw, swap, ec2) :
        sg \in {"absent", "pairs", "no-group-id", "text", "empty"},
        nat \in {"absent", "dicts", "strings", "none"},
        igw \in BOOLEAN, swap \in BOOLEAN, ec2 \in BOOLEAN}

-----------------------------------------------------------------------------
(* The parser as a state machine *)

\* no query yet; runs counts the runs of _build_subnet_vpc_map during the
\* query that was answered last
NoResult == [op |-> "none", arg |-> None, value |-> None, runs |-> 0]

\* no export request and no layout run
NoWeb == [loop |-> 0, files |-> <<>>, req |-> <<>>]

NoFlow == [pc |-> "none"]

InitWith(docs) ==
    /\ pc = "init"
    /\ doc \in docs
    /\ items = <<>>
    /\ by_type = NoBuckets
    /\ by_id = NoBuckets
    /\ result = NoResult
    /\ again = FALSE
    /\ key = [k |-> <<>>, out |-> <<>>, calls |-> 0]
    /\ passes = 0
    /\ web = NoWeb
    /\ flow = NoFlow

\* the items of the snapshot after the normalisation of __init__
Normalized(d) == [i \in 1..Len(d) |-> NormalizeItem(d[i])]

\* AWSConfigParser(snapshot_path): every item is normalised and indexed
Load ==
    /\ pc = "init"
    /\ items' = Normalized(doc)
    /\ by_type' = IndexByType(NoBuckets, Normalized(doc))
    /\ by_id' = IndexById(NoBuckets, Normalized(doc))
    /\ pc' = "loaded"
    /\ passes' = 1
    /\ UNCHANGED <<doc, result, again, key, web, flow>>

\* A query on the loaded parser leaves its answer in result and, in by_type,
\* an empty bucket for every type it read and the index did not hold.
Answered == again' = (result.op # "none") /\ UNCHANGED <<pc, doc, items, by_id, key, passes, web, flow>>

Call_build_subnet_vpc_map ==
    /\ pc = "loaded"
    /\ result' = [op |-> "_build_subnet_vpc_map", arg |-> None,
                  value |-> _build_subnet_vpc_map(by_type),
                  runs |-> 1]
    /\ by_type' = Touch(by_type, Touched_subnet_vpc_map)
    /\ Answered

Call_build_subnet_cidr_map ==
    /\ pc = "loaded"
    /\ result' = [op |-> "_build_subnet_cidr_map", arg |-> None,
                  value |-> _build_subnet_cidr_map(by_type),
                  runs |-> 0]
    /\ by_type' = Touch(by_type, {})
    /\ Answered

Call_build_subnet_tier_map ==
    /\ pc = "loaded"
    /\ \E v \in Vpcs :
          /\ result' = [op |-> "_build_subnet_tier_map", arg |-> S(v),
                        value |-> _build_subnet_tier_map(by_type, S(v)),
                        runs |-> Runs_subnet_tier_map(by_type, S(v))]
          /\ by_type' = Touch(by_type, Touched_subnet_tier_map(by_type, S(v)))
    /\ Answered

Call_build_nat_vpc_map ==
    /\ pc = "loaded"
    /\ result' = [op |-> "_build_nat_vpc_map", arg |-> None,
                  value |-> _build_nat_vpc_map(by_type),
                  runs |-> Runs_nat_vpc_map(by_type)]
    /\ by_type' = Touch(by_type, Touched_nat_vpc_map(by_type))
    /\ Answered

Call_build_igw_vpc_map ==
    /\ pc = "loaded"
    /\ result' = [op |-> "_build_igw_vpc_map", arg |-> None,
                  value |-> _build_igw_vpc_map(by_type),
                  runs |-> Runs_igw_vpc_map(by_type)]
    /\ by_type' = Touch(by_type, Touched_igw_vpc_map(by_type))
    /\ Answered

Call_build_rds_vpc_map ==
    /\ pc = "loaded"
    /\ result' = [op |-> "_build_rds_vpc_map", arg |-> None,
                  value |-> _build_rds_vpc_map(by_type),
                  runs |-> Runs_rds_vpc_map(by_type)]
    /\ by_type' = Touch(by_type, Touched_rds_vpc_map(by_type))
    /\ Answered

Call_get_primary_vpc_id ==
    /\ pc = "loaded"
    /\ result' = [op |-> "_get_primary_vpc_id", arg |-> None,
                  value |-> _get_primary_vpc_id(by_type),
                  runs |-> 1]
    /\ by_type' = Touch(by_type, Touched_primary_vpc_id(by_type))
    /\ Answered

Call_get_subnets_for_vpc ==
    /\ pc = "loaded"
    /\ \E v \in Vpcs :
          /\ result' = [op |-> "get_subnets_for_vpc", arg |-> S(v),
                        value |-> get_subnets_for_vpc(by_type, S(v)),
                        runs |-> Runs_get_subnets_for_vpc(by_type, S(v))]
          /\ by_type' = Touch(by_type, Touched_get_subnets_for_vpc(by_type, S(v)))
    /\ Answered

Call_get_igw_for_vpc ==
    /\ pc = "loaded"
    /\ \E v \in Vpcs :
          /\ result' = [op |-> "get_igw_for_vpc", arg |-> S(v),
                        value |-> get_igw_for_vpc(by_type, S(v)),
                        runs |-> Runs_igw_vpc_map(by_type)]
          /\ by_type' = Touch(by_type, Touched_igw_vpc_map(by_type) \cup {T_IGW})
    /\ Answered

Call_get_nat_gateways_for_vpc ==
    /\ pc = "loaded"
    /\ \E v \in Vpcs :
          /\ result' = [op |-> "get_nat_gateways_for_vpc", arg |-> S(v),
                        value |-> get_nat_gateways_for_vpc(by_type, S(v)),
                        runs |-> Runs_nat_vpc_map(by_type)]
          /\ by_type' = Touch(by_type, Touched_nat_vpc_map(by_type) \cup {T_NAT})
    /\ Answered

Call_get_sg_connections ==
    /\ pc = "loaded"
    /\ result' = [op |-> "get_sg_connections", arg |-> None,
                  value |-> get_sg_connections(by_type),
                  runs |-> 0]
    /\ by_type' = Touch(by_type, {T_SG})
    /\ Answered

Call_get_security_groups_for_vpc ==
    /\ pc = "loaded"
    /\ \E v \in Vpcs :
          result' = [op |-> "get_security_groups_for_vpc", arg |-> S(v),
                     value |-> get_security_groups_for_vpc(by_type, S(v)),
                     runs |-> 0]
    /\ by_type' = Touch(by_type, {T_SG})
    /\ Answered

Call_get_external_sg_rules ==
    /\ pc = "loaded"
    /\ \E v \in Vpcs :
          result' = [op |-> "get_external_sg_rules", arg |-> S(v),
                     value |-> get_external_sg_rules(by_type, S(v)),
                     runs |-> 0]
    /\ by_type' = Touch(by_type, {T_SG})
    /\ Answered

\* the rewriting steps of the normalisation applied to an item once more:
\* null replacement, key rewriting, tag collapsing
Renormalized(item) == TagsCollapsed(KeysNormalized(NullsReplaced(item)))

MaxPasses == 3

Renormalize ==
    /\ pc = "loaded"
    /\ passes < MaxPasses
    /\ items' = [i \in 1..Len(items) |-> Renormalized(items[i])]
    /\ passes' = passes + 1
    /\ UNCHANGED <<pc, doc, by_type, by_id, result, again, key, web, flow>>

\* _to_camel applied to the key k, and then to what it returned
ToCamel ==
    /\ key.calls < 2
    /\ key' = [k |-> key.k,
               out |-> _to_camel(IF key.calls = 0 THEN key.k ELSE key.out),
               calls |-> key.calls + 1]
    /\ UNCHANGED <<pc, doc, items, by_type, by_id, result, again, passes, web, flow>>

NextSubnets == Load \/ Call_build_subnet_vpc_map \/ Call_get_subnets_for_vpc

NextTiers == Load \/ Call_build_subnet_tier_map \/ Call_get_subnets_for_vpc

NextNorm == Load \/ Renormalize \/ ToCamel

Next ==
    \/ Load
    \/ Call_build_subnet_vpc_map
    \/ Call_build_subnet_cidr_map
    \/ Call_build_subnet_tier_map
    \/ Call_build_nat_vpc_map
    \/ Call_build_igw_vpc_map
    \/ Call_build_rds_vpc_map
    \/ Call_get_primary_vpc_id
    \/ Call_get_subnets_for_vpc
    \/ Call_get_igw_for_vpc
    \/ Call_get_nat_gateways_for_vpc
    \/ Call_get_sg_connections
    \/ Call_get_security_groups_for_vpc
    \/ Call_get_external_sg_rules

InitOwner == InitWith(OwnerDocs)

SpecOwner == InitOwner /\ [][NextSubnets]_vars

InitTier == InitWith(TierDocs)

SpecTier == InitTier /\ [][NextTiers]_vars

InitHints == InitWith(HintDocs)

SpecHints == InitHints /\ [][NextTiers]_vars

\* either a snapshot to normalise or a key to rewrite
InitNorm ==
    /\ pc = "init"
    /\ items = <<>>
    /\ by_type = NoBuckets
    /\ by_id = NoBuckets
    /\ result = NoResult
    /\ again = FALSE
    /\ passes = 0
    /\ web = NoWeb
    /\ flow = NoFlow
    /\ \/ doc \in NormDocs /\ key = [k |-> <<>>, out |-> <<>>, calls |-> 0]
       \/ doc = <<>> /\ key \in [k : KeyChars, out : {<<>>}, calls : {0}]

SpecNorm == InitNorm /\ [][NextNorm]_vars

Init == InitWith(QueryDocs)

Spec == Init /\ [][Next]_vars


\* ---------------------------------------------------------------------
\* Snapshots for the index: up to MaxItems items, of an indexed type or
\* of one the allow-list does not hold, that may share a resourceId (a
\* configuration history holds one item per recorded change of a resource)
\* or lack it

MaxItems == 3

T_Other == "AWS::IAM::Role"

CaptureTimes == <<"t1", "t2", "t3", "t4">>

IndexTypes == {T_VPC, T_Subnet, T_Other}

IndexIds == {"", "r-1", "r-2"}

\* the item at position p of a snapshot
IndexItem(type, id, p) ==
    D(<< <<"resourceType", S(type)>> >>
      \o (IF id = "" THEN <<>> ELSE << <<"resourceId", S(id)>> >>)
      \o << <<"configurationItemCaptureTime", S(CaptureTimes[p])>> >>)

RECURSIVE IndexDocsOfLen(_)
IndexDocsOfLen(n) ==
    IF n = 0 THEN {<<>>}
    ELSE {Append(d, IndexItem(type, id, n)) :
             d \in IndexDocsOfLen(n - 1), type \in IndexTypes, id \in IndexIds}

IndexDocs == UNION {IndexDocsOfLen(n) : n \in 0..MaxItems}

\* DiagramStateConverter._enrich_metadata: raw = self.parser.by_id.get(resource_id, {})
Lookup ==
    /\ pc = "loaded"
    /\ \E r \in IndexIds :
          result' = [op |-> "by_id.get", arg |-> S(r),
                     value |-> IF r \in DOMAIN by_id THEN by_id[r] ELSE EmptyDict,
                     runs |-> 0]
    /\ by_type' = by_type
    /\ Answered

NextIndex == Load \/ Lookup

InitIndex == InitWith(IndexDocs)

SpecIndex == InitIndex /\ [][NextIndex]_vars

\* ---------------------------------------------------------------------
\* Snapshots for the primary network and the database map: sub-1 belongs
\* to vpc-1, sub-2 to network s2 or to none; a load balancer, an instance
\* and a database each name a network or are absent; the database may also
\* give no network at all (unresolved), and so does a second database

ScoreDoc(s2, alb, ec2, db1, db2) ==
    VpcItems
    \o << SubnetItem("sub-1", "vpc-1", "az-a", "", "", FALSE),
          SubnetItem("sub-2", s2, "az-a", "", "", FALSE) >>
    \o (IF alb = "" THEN <<>> ELSE <<AlbItem("alb-1", alb, "internal", <<>>)>>)
    \o (IF ec2 = "" THEN <<>>
        ELSE <<MkItem(T_Instance, "i-1", WithCfg(<< <<"vpcId", S(ec2)>> >>))>>)
    \o (IF db1 = "absent" THEN <<>> ELSE <<DbItem("db-1", db1)>>)
    \o (IF db2 THEN <<DbItem("db-2", "unresolved")>> ELSE <<>>)

ScoreDocs ==
    {ScoreDoc(s2, alb, ec2, db1, db2) :
        s2 \in VpcOrNone, alb \in VpcOrNone, ec2 \in VpcOrNone,
        db1 \in {"absent", "unresolved"} \cup Vpcs, db2 \in BOOLEAN}

NextScore == Load \/ Call_get_primary_vpc_id \/ Call_build_rds_vpc_map

InitScore == InitWith(ScoreDocs)

SpecScore == InitScore /\ [][NextScore]_vars

\* ---------------------------------------------------------------------
\* Snapshots for the security rules: group sg-1 names its network in its
\* configuration or in a relationship, or names none; its first ingress
\* rule has the ranges r1, its second rule, when present, an open IPv4
\* range in mapping form or only an open IPv6 range; group sg-2, when
\* present, belongs to vpc-2 and is open.  alt spells the keys the way the
\* normalisation has to rewrite.

OpenRange == "0.0.0.0/0"

RestrictedRange == "10.0.0.0/8"

RangeMap(cidr, alt) ==
    D(<< <<IF alt THEN "CidrIp" ELSE "cidrIp", S(cidr)>>, <<"description", S("web")>> >>)

\* the ipRanges of a rule, by shape
RangesOf(shape, alt) ==
    CASE shape = "none" -> <<>>
      [] shape = "open-string" -> <<S(OpenRange)>>
      [] shape = "open-mapping" -> <<RangeMap(OpenRange, alt)>>
      [] shape = "restricted-string" -> <<S(RestrictedRange)>>
      [] shape = "restricted-mapping" -> <<RangeMap(RestrictedRange, alt)>>
      [] shape = "mixed" -> <<RangeMap(RestrictedRange, alt), S(OpenRange), RangeMap(OpenRange, alt)>>

RangeShapes ==
    {"none", "open-string", "open-mapping", "restricted-string", "restricted-mapping", "mixed"}

IngressRule(port, ranges, ranges6, alt) ==
    D(<< <<"ipProtocol", S("tcp")>>, <<"fromPort", S(port)>>, <<"toPort", S(port)>>,
         <<IF alt THEN "IpRanges" ELSE "ipRanges", L(ranges)>>,
         <<"ipv6Ranges", L(ranges6)>> >>)

GroupItem(id, own, net, rules, alt) ==
    MkItem(T_SG, id,
           WithCfg(<< <<"GroupId", S(id)>>, <<"groupName", S("web")>>,
                      <<"vpcId", IF own = "configuration" THEN S(net) ELSE EmptyStr>>,
                      <<IF alt THEN "IpPermissions" ELSE "ipPermissions", L(rules)>> >>)
           \o << <<"relationships",
                   L(IF own = "relationship" THEN <<Rel(T_VPC, net)>> ELSE <<>>)>> >>)

RulesDoc(own, net, r1, r2, other, alt) ==
    VpcItems
    \o << GroupItem("sg-1", own, net,
                    <<IngressRule("443", RangesOf(r1, alt), <<>>, alt)>>
                    \o (CASE r2 = "absent" -> <<>>
                          [] r2 = "open" ->
                               <<IngressRule("80", RangesOf("open-mapping", alt), <<>>, alt)>>
                          [] r2 = "ipv6" ->
                               <<IngressRule("80", <<>>,
                                             << D(<< <<"cidrIpv6", S("::/0")>> >>) >>, alt)>>),
                    alt) >>
    \o (IF other
        THEN <<GroupItem("sg-2", "configuration", "vpc-2",
                         <<IngressRule("22", RangesOf("open-string", alt), <<>>, alt)>>, alt)>>
        ELSE <<>>)

RulesDocs ==
    {RulesDoc(own, net, r1, r2, other, alt) :
        own \in {"configuration", "relationship", "none"}, net \in Vpcs, r1 \in RangeShapes,
        r2 \in {"absent", "open", "ipv6"}, other \in BOOLEAN, alt \in BOOLEAN}

NextRules == Load \/ Call_get_security_groups_for_vpc \/ Call_get_external_sg_rules

InitRules == InitWith(RulesDocs)

SpecRules == InitRules /\ [][NextRules]_vars

\* ---------------------------------------------------------------------
\* Snapshots for the gateway maps: the network items present or not,
\* sub-1 and sub-2 each in a network or in none; a gateway that names its
\* network in an attachment, in a relationship or nowhere, a second
\* gateway that is absent, names nothing or is attached to the last
\* network; a route table of network r with one route to a gateway, a
\* default route or a route to another destination

DefaultDestination == "0.0.0.0/0"

OtherDestination == "10.1.0.0/16"

\* an internet gateway and the evidence ev of its network net
IgwWith(id, ev, net) ==
    MkItem(T_IGW, id,
           WithCfg(<< <<"attachments",
                        L(IF ev = "attachment"
                          THEN << D(<< <<"vpcId", S(net)>> >>) >>
                          ELSE <<>>)>> >>)
           \o << <<"relationships",
                   L(IF ev = "relationship" THEN <<Rel(T_VPC, net)>> ELSE <<>>)>> >>)

\* a NAT gateway and the evidence ev of its network net
NatWith(id, ev, net) ==
    MkItem(T_NAT, id,
           WithCfg(<< <<"vpcId", IF ev = "configuration" THEN S(net) ELSE EmptyStr>> >>)
           \o << <<"relationships",
                   L(IF ev = "relationship" THEN <<Rel(T_VPC, net)>> ELSE <<>>)>> >>)

\* a route table of network vpc with a local route and one route to target
RouteTableTo(id, vpc, field, target, dest) ==
    MkItem(T_RouteTable, id,
           WithCfg(<< <<"VpcId", S(vpc)>>,
                      <<"Routes",
                        L(<< LocalRoute,
                             D(<< <<"DestinationCidrBlock", S(dest)>>,
                                  <<field, S(target)>> >>) >>)>> >>))

\* the subnets of a gateway snapshot
GatewaySubnets(s1, s2) ==
    << SubnetItem("sub-1", s1, "az-a", "", "", FALSE),
       SubnetItem("sub-2", s2, "az-a", "", "", FALSE) >>

IgwDoc(vpcs, s1, s2, ev, net, second, rt, target, dest) ==
    (IF vpcs THEN VpcItems ELSE <<>>)
    \o GatewaySubnets(s1, s2)
    \o <<IgwWith("igw-1", ev, net)>>
    \o (CASE second = "absent" -> <<>>
          [] second = "none" -> <<IgwWith("igw-2", "none", "")>>
          [] second = "attachment" -> <<IgwWith("igw-2", "attachment", AllVpcIds[NumVpcs])>>)
    \o (IF rt = "" THEN <<>> ELSE <<RouteTableTo("rtb-1", rt, "GatewayId", target, dest)>>)

IgwDocs ==
    {IgwDoc(vpcs, s1, s2, ev, net, second, rt, target, dest) :
        vpcs \in BOOLEAN, s1 \in VpcOrNone, s2 \in VpcOrNone,
        ev \in {"none", "attachment", "relationship"}, net \in Vpcs,
        second \in {"absent", "none", "attachment"},
        rt \in VpcOrNone, target \in IgwIds, dest \in {DefaultDestination, OtherDestination}}

NatDoc(vpcs, s1, s2, ev, net, second, rt, target) ==
    (IF vpcs THEN VpcItems ELSE <<>>)
    \o GatewaySubnets(s1, s2)
    \o <<NatWith("nat-1", ev, net)>>
    \o (IF second THEN <<NatWith("nat-2", "none", "")>> ELSE <<>>)
    \o (IF rt = "" THEN <<>>
        ELSE <<RouteTableTo("rtb-1", rt, "natGatewayId", target, DefaultDestination)>>)

NatDocs ==
    {NatDoc(vpcs, s1, s2, ev, net, second, rt, target) :
        vpcs \in BOOLEAN, s1 \in VpcOrNone, s2 \in VpcOrNone,
        ev \in {"none", "configuration", "relationship"}, net \in Vpcs,
        second \in BOOLEAN, rt \in VpcOrNone, target \in NatIds}

NextGateways == Load \/ Call_build_igw_vpc_map \/ Call_get_igw_for_vpc

InitGateways == InitWith(IgwDocs)

SpecGateways == InitGateways /\ [][NextGateways]_vars

NextNats ==
    Load \/ Call_build_nat_vpc_map \/ Call_get_nat_gateways_for_vpc \/ Call_get_primary_vpc_id

InitNats == InitWith(NatDocs)

SpecNats == InitNats /\ [][NextNats]_vars

\* ---------------------------------------------------------------------
\* Snapshots for the subnet CIDR: sub-1 of vpc-1 with each source of its
\* CIDR present or not (the configuration, a supplementary configuration
\* that is a mapping or text, an association set that is a list, text
\* that parses or text that does not, a resource name with or without a
\* slash), a network interface and an instance that sit in the subnet

ConfigCidr == "10.0.0.0/24"

SupplementaryCidr == "10.0.3.0/24"

AssociationCidr == "10.0.4.0/24"

NameCidr == "10.0.9.0/24"

\* the association set of a subnet, by shape
AssociationSetOf(shape) ==
    CASE shape = "empty" -> EmptyList
      [] shape = "list" ->
           L(<< S("assoc-1"), D(<< <<"cidrBlock", EmptyStr>> >>),
                D(<< <<"cidrBlock", S(AssociationCidr)>> >>),
                D(<< <<"cidrBlock", S("10.0.5.0/24")>> >>) >>)
      [] shape = "text" -> S("[{\"cidrBlock\": \"10.0.4.0/24\"}]")
      [] shape = "bad-text" -> S("{not json")

\* the supplementaryConfiguration field of a subnet
Supplementary(supp, sc, set) ==
    CASE supp = "absent" -> <<>>
      [] supp = "text" -> << <<"supplementaryConfiguration", S("{not json")>> >>
      [] supp = "mapping" ->
           << <<"supplementaryConfiguration",
                D((IF sc THEN << <<"cidrBlock", S(SupplementaryCidr)>> >> ELSE <<>>)
                  \o (IF set = "absent" THEN <<>>
                      ELSE << <<"cidrBlockAssociationSet", AssociationSetOf(set)>> >>))>> >>

CidrSubnet(c, supp, sc, set, rn) ==
    MkItem(T_Subnet, "sub-1",
           WithCfg(<< <<"VpcId", S("vpc-1")>>, <<"CidrBlock", S(c)>> >>)
           \o Supplementary(supp, sc, set)
           \o (IF rn = "" THEN <<>> ELSE << <<"resourceName", S(rn)>> >>))

\* a network interface in subnet sub with its address at the top level or
\* in its address list
EniItem(id, sub, shape) ==
    MkItem(T_ENI, id,
           WithCfg(<< <<"subnetId", S(sub)>>,
                      <<"privateIpAddress", IF shape = "top" THEN S("10.0.2.7") ELSE EmptyStr>>,
                      <<"privateIpAddresses",
                        IF shape = "listed"
                        THEN L(<< D(<< <<"privateIpAddress", S("10.0.2.7")>> >>) >>)
                        ELSE EmptyStr>> >>))

CidrDoc(c, supp, sc, set, rn, eni, ec2) ==
    VpcItems
    \o <<CidrSubnet(c, supp, sc, set, rn)>>
    \o (IF eni = "absent" THEN <<>> ELSE <<EniItem("eni-1", "sub-1", eni)>>)
    \o (IF ec2 THEN <<InstanceItem("i-1", "sub-1")>> ELSE <<>>)

CidrDocs ==
    {CidrDoc(c, "mapping", sc, set, rn, eni, ec2) :
        c \in {"", ConfigCidr}, sc \in BOOLEAN,
        set \in {"absent", "empty", "list", "text", "bad-text"},
        rn \in {"", "web", NameCidr}, eni \in {"absent", "top", "listed"}, ec2 \in BOOLEAN}
    \cup {CidrDoc(c, supp, FALSE, "absent", rn, eni, ec2) :
             c \in {"", ConfigCidr}, supp \in {"absent", "text"},
             rn \in {"", "web", NameCidr}, eni \in {"absent", "top", "listed"}, ec2 \in BOOLEAN}

NextCidr == Load \/ Call_build_subnet_cidr_map \/ Call_get_subnets_for_vpc

InitCidr == InitWith(CidrDocs)

SpecCidr == InitCidr /\ [][NextCidr]_vars

\* ---------------------------------------------------------------------
\* Snapshots for ties: the network items in either order, two subnets and
\* two instances that each name a network or none

TieDoc(swap, s1, s2, e1, e2) ==
    (IF swap THEN Reverse(VpcItems) ELSE VpcItems)
    \o GatewaySubnets(s1, s2)
    \o (IF e1 = "" THEN <<>>
        ELSE <<MkItem(T_Instance, "i-1", WithCfg(<< <<"vpcId", S(e1)>> >>))>>)
    \o (IF e2 = "" THEN <<>>
        ELSE <<MkItem(T_Instance, "i-2", WithCfg(<< <<"vpcId", S(e2)>> >>))>>)

TieDocs ==
    {TieDoc(swap, s1, s2, e1, e2) :
        swap \in BOOLEAN, s1 \in VpcOrNone, s2 \in VpcOrNone,
        e1 \in VpcOrNone, e2 \in VpcOrNone}

NextTie == Load \/ Call_get_primary_vpc_id

InitTie == InitWith(TieDocs)

SpecTie == InitTie /\ [][NextTie]_vars

\* ---------------------------------------------------------------------
\* Snapshots for the shape of the structural distribution: neither
\* routing nor placement evidence; sub-1 of vpc-1 in zone az-a, sub-2 of
\* vpc-1 in az-a or az-b, sub-3 of either network in az-a, az-b or no
\* zone, further subnets of vpc-1 in az-a; instances in any of the first
\* three subnets; an internet gateway and an unplaced database may exist

ComputeChoices == SUBSET {"sub-1", "sub-2", "sub-3"}

ShapeDoc(z2, z3, o3, ec2, igw, rds) ==
    VpcItems
    \o << SubnetItem("sub-1", "vpc-1", "az-a", "", "", FALSE),
          SubnetItem("sub-2", "vpc-1", z2, "", "", FALSE),
          SubnetItem("sub-3", o3, z3, "", "", FALSE) >>
    \o [i \in 1..(NumSubnets - 3) |->
           SubnetItem(AllSubnetIds[i + 3], "vpc-1", "az-a", "", "", FALSE)]
    \o (IF "sub-1" \in ec2 THEN <<InstanceItem("i-1", "sub-1")>> ELSE <<>>)
    \o (IF "sub-2" \in ec2 THEN <<InstanceItem("i-2", "sub-2")>> ELSE <<>>)
    \o (IF "sub-3" \in ec2 THEN <<InstanceItem("i-3", "sub-3")>> ELSE <<>>)
    \o (IF igw THEN <<IgwItem("igw-1")>> ELSE <<>>)
    \o (IF rds THEN <<RdsItem("db-1", <<>>)>> ELSE <<>>)

ShapeDocs ==
    {ShapeDoc(z2, z3, o3, ec2, igw, rds) :
        z2 \in {"az-a", "az-b"}, z3 \in {"az-a", "az-b", ""}, o3 \in Vpcs,
        ec2 \in ComputeChoices, igw \in BOOLEAN, rds \in BOOLEAN}

InitShape == InitWith(ShapeDocs)

SpecShape == InitShape /\ [][NextTiers]_vars

\* ---------------------------------------------------------------------
\* Snapshots for the partition of the subnets: sub-1 with each kind of
\* evidence of its network absent or naming any network, and sub-2, which
\* names a network itself or none

PartitionDoc(own, rel, ec2, rtb, s2) ==
    OwnerDoc(own, rel, ec2, "", "", rtb, FALSE)
    \o <<SubnetItem("sub-2", s2, "az-a", "", "", FALSE)>>

PartitionDocs ==
    {PartitionDoc(own, rel, ec2, rtb, s2) :
        own \in VpcOrNone, rel \in VpcOrNone, ec2 \in VpcOrNone, rtb \in VpcOrNone,
        s2 \in VpcOrNone}

InitPartition == InitWith(PartitionDocs)

SpecPartition == InitPartition /\ [][NextSubnets]_vars

-----------------------------------------------------------------------------
(* The export endpoints of web/app.py *)

\* The handlers are coroutines of one event loop: a handler runs alone
\* from one await to the next.  web.loop is the request whose handler holds
\* the loop (0: none), web.files the temporary directory (path -> content),
\* web.req the requests: the upload, the handler's position, the response.

NumRequests == 2

Requests == 1..NumRequests

\* the uploads: snapshots under two names for both formats, a file that is
\* no .json, text that is no JSON, and JSON that makes the parser raise
Uploads ==
    [filename : {"a.json", "b.json"}, format : {"xlsx", "pptx"}, content : {"snap-1", "snap-2"}]
    \cup {[filename |-> "a.txt", format |-> "xlsx", content |-> "snap-1"],
          [filename |-> "a.json", format |-> "xlsx", content |-> "{not json"],
          [filename |-> "a.json", format |-> "pptx", content |-> "[]"]}

\* file.filename.endswith(".json")
EndsWithJson(filename) == filename \in {"a.json", "b.json"}

\* os.path.splitext(file.filename)[0]
BaseName(filename) ==
    CASE filename = "a.json" -> "a"
      [] filename = "b.json" -> "b"
      [] filename = "a.txt" -> "a"

\* json.loads(content) raises
InvalidJson(content) == content = "{not json"

\* AWSConfigParser(tmp_path) raises: the document is no mapping
ParserRaises(content) == content = "[]"

\* tmp.name: NamedTemporaryFile gives every request a name of its own
TmpNames == <<"tmp-1.json", "tmp-2.json", "tmp-3.json", "tmp-4.json">>

\* os.path.join(tempfile.gettempdir(), f"{base_name}.{format}")
OutputPath(upload) == BaseName(upload.filename) \o "." \o upload.format

\* what diagram.generate(output_path) writes for a snapshot
Generated(upload) == [from |-> upload.content, format |-> upload.format]

NewRequest(upload) ==
    [upload |-> upload, pc |-> "received", output_path |-> "", status |-> 0, body |-> None]

\* the files with path written / removed
WriteFile(files, path, content) ==
    [p \in DOMAIN files \cup {path} |-> IF p = path THEN content ELSE files[p]]

RemoveFile(files, path) == [p \in DOMAIN files \ {path} |-> files[p]]

\* request r moves on
Moved(r, pos, loop, files) ==
    /\ web' = [web EXCEPT !.req[r] = pos, !.loop = loop, !.files = files]
    /\ UNCHANGED <<pc, doc, items, by_type, by_id, result, again, key, passes, flow>>

\* _export_file up to its await: the file name is checked, then the
\* handler waits for the upload
CheckName(r) ==
    /\ web.loop = 0 /\ web.req[r].pc = "received"
    /\ IF EndsWithJson(web.req[r].upload.filename)
       THEN Moved(r, [web.req[r] EXCEPT !.pc = "reading"], 0, web.files)
       ELSE Moved(r, [web.req[r] EXCEPT !.pc = "done", !.status = 400], 0, web.files)

\* the upload is validated and written to a temporary file of its own
SaveUpload(r) ==
    /\ web.loop = 0 /\ web.req[r].pc = "reading"
    /\ IF InvalidJson(web.req[r].upload.content)
       THEN Moved(r, [web.req[r] EXCEPT !.pc = "done", !.status = 400], 0, web.files)
       ELSE Moved(r, [web.req[r] EXCEPT !.pc = "saved"], r,
                  WriteFile(web.files, TmpNames[r], web.req[r].upload.content))

\* the try block: the parser reads the temporary file, the export engine
\* writes the output file named after the upload; either may raise
Generate(r) ==
    /\ web.loop = r /\ web.req[r].pc = "saved"
    /\ \E raises \in BOOLEAN :
          IF ParserRaises(web.files[TmpNames[r]]) \/ raises
          THEN Moved(r, [web.req[r] EXCEPT !.pc = "failed", !.status = 500], r, web.files)
          ELSE Moved(r, [web.req[r] EXCEPT !.pc = "generated",
                                           !.output_path = OutputPath(web.req[r].upload)],
                     r,
                     WriteFile(web.files, OutputPath(web.req[r].upload),
                               [from |-> web.files[TmpNames[r]],
                                format |-> web.req[r].upload.format]))

\* the finally clause: os.unlink(tmp_path); the handler returns its
\* FileResponse or its error
Unlink(r) ==
    /\ web.loop = r /\ web.req[r].pc \in {"generated", "failed"}
    /\ Moved(r, [web.req[r] EXCEPT !.pc = IF web.req[r].pc = "generated"
                                          THEN "responding" ELSE "done"],
             0, RemoveFile(web.files, TmpNames[r]))

\* the FileResponse is sent: the file at its path is read now
SendFile(r) ==
    /\ web.loop = 0 /\ web.req[r].pc = "responding"
    /\ Moved(r, [web.req[r] EXCEPT !.pc = "done", !.status = 200,
                                   !.body = web.files[web.req[r].output_path]],
             0, web.files)

NextWeb ==
    \E r \in Requests :
        CheckName(r) \/ SaveUpload(r) \/ Generate(r) \/ Unlink(r) \/ SendFile(r)

InitWeb ==
    /\ pc = "init"
    /\ doc = <<>>
    /\ items = <<>>
    /\ by_type = NoBuckets
    /\ by_id = NoBuckets
    /\ result = NoResult
    /\ again = FALSE
    /\ key = [k |-> <<>>, out |-> <<>>, calls |-> 0]
    /\ passes = 0
    /\ flow = NoFlow
    /\ \E uploads \in [Requests -> Uploads] :
          web = [loop |-> 0, files |-> <<>>,
                 req |-> [r \in Requests |-> NewRequest(uploads[r])]]

SpecWeb == InitWeb /\ [][NextWeb]_vars

-----------------------------------------------------------------------------
(* LayoutEngine._layout_icons_flow of layout_engine.py *)

ICON_W == 64

ICON_H == 64

ICON_GAP == 24

ICON_COLS_PER_SUBNET == 3

\* the icons of one subnet, in the order of the nodes argument; a call
\* gets the first k of them, the edges may also touch the others
FlowNodes == <<"alb-1", "ec2-1", "rds-1">>

MaxEdges == 3

FlowNodeLists == {SubSeq(FlowNodes, 1, k) : k \in 0..Len(FlowNodes)}

FlowEnds == {FlowNodes[i] : i \in DOMAIN FlowNodes}

\* self._edges.values(): <<source_node_id, target_node_id>> in dict order
FlowEdgeLists == UNION {[1..n -> FlowEnds \X FlowEnds] : n \in 0..MaxEdges}

\* avail_w; ICON_W + ICON_GAP is 88
FlowWidths == {-100, 87, 176, 1000}

\* node_ids = {n.id for n in nodes}
NodeIds(nodes) == {nodes[i] : i \in DOMAIN nodes}

\* the edges with both ends among the nodes
InternalEdges(nodes, edges) ==
    SelectSeq(edges, LAMBDA e : e[1] \in NodeIds(nodes) /\ e[2] \in NodeIds(nodes))

\* in_degree: the number of internal edges that arrive at each node
InDegree(nodes, edges) ==
    LET es == InternalEdges(nodes, edges)
    IN  [n \in NodeIds(nodes) |-> Cardinality({i \in DOMAIN es : es[i][2] = n})]

\* out_edges: the targets of each node's internal edges, in edge order
OutEdges(nodes, edges) ==
    [n \in NodeIds(nodes) |->
        LET es == SelectSeq(InternalEdges(nodes, edges), LAMBDA e : e[1] = n)
        IN  [i \in DOMAIN es |-> es[i][2]]]

\* queue: the nodes of in-degree 0 in node order, all nodes when there is none
InitialQueue(nodes, in_degree) ==
    LET roots == SelectSeq(nodes, LAMBDA n : in_degree[n] = 0)
    IN  IF roots = <<>> THEN nodes ELSE roots

\* int(x / y) for y > 0: Python's int() truncates towards zero
IntQuotient(x, y) == IF x >= 0 THEN x \div y ELSE -((-x) \div y)

\* cols = max(1, int(avail_w / (ICON_W + ICON_GAP))), at most ICON_COLS_PER_SUBNET
Max2(a, b) == IF a >= b THEN a ELSE b

Min2(a, b) == IF a <= b THEN a ELSE b

GridCols(avail_w) ==
    Min2(Max2(1, IntQuotient(avail_w, ICON_W + ICON_GAP)), ICON_COLS_PER_SUBNET)

\* a grid whose rows always hold ICON_COLS_PER_SUBNET nodes
GridCell_full_rows(i, cols) == [col |-> i % cols, row |-> i \div ICON_COLS_PER_SUBNET]

\* the i-th node of the order (i from 0) at col = i % cols, row = i // cols
GridCell(i, cols) == [col |-> i % cols, row |-> i \div cols]

\* position and size of the node in a cell, for start_x = start_y = 0
IconBox(cell) ==
    [x |-> cell.col * (ICON_W + ICON_GAP), y |-> cell.row * (ICON_H + ICON_GAP),
     width |-> ICON_W, height |-> ICON_H]

\* the nodes not visited by the traversal, in node order
Unvisited(nodes, visited) == SelectSeq(nodes, LAMBDA n : n \notin visited)

\* avail_w is read only when the grid is laid out, after the loop: the
\* call draws it there
FlowCall(nodes, edges) ==
    [pc |-> "call", nodes |-> nodes, edges |-> edges, avail_w |-> 0,
     out_edges |-> <<>>, queue |-> <<>>, visited |-> {}, sorted_ids |-> <<>>,
     cols |-> 0, boxes |-> <<>>]

FlowMoved == UNCHANGED <<pc, doc, items, by_type, by_id, result, again, key, passes, web>>

\* the call up to the while loop: no node, no layout; else the degrees,
\* the out-edges and the first queue
FlowBegin ==
    /\ flow.pc = "call"
    /\ IF flow.nodes = <<>>
       THEN flow' = [flow EXCEPT !.pc = "done"]
       ELSE flow' = [flow EXCEPT !.pc = "loop",
                                 !.out_edges = OutEdges(flow.nodes, flow.edges),
                                 !.queue = InitialQueue(flow.nodes,
                                                        InDegree(flow.nodes, flow.edges))]
    /\ FlowMoved

\* one iteration of the while loop: the head of the queue is skipped when
\* already visited, else ordered next and its unvisited targets enqueued
FlowPop ==
    /\ flow.pc = "loop" /\ flow.queue # <<>>
    /\ LET nid == Head(flow.queue)
       IN  IF nid \in flow.visited
           THEN flow' = [flow EXCEPT !.queue = Tail(flow.queue)]
           ELSE flow' = [flow EXCEPT
                    !.visited = flow.visited \cup {nid},
                    !.sorted_ids = Append(flow.sorted_ids, nid),
                    !.queue = Tail(flow.queue)
                              \o Unvisited(flow.out_edges[nid], flow.visited \cup {nid})]
    /\ FlowMoved

\* after the loop: the unvisited nodes are appended in node order and the
\* nodes placed on the grid in the order found
FlowPlace ==
    /\ flow.pc = "loop" /\ flow.queue = <<>>
    /\ \E avail_w \in FlowWidths :
       LET sorted_ids == flow.sorted_ids \o Unvisited(flow.nodes, flow.visited)
           cols == GridCols(avail_w)
       IN  flow' = [flow EXCEPT
                !.pc = "done",
                !.avail_w = avail_w,
                !.sorted_ids = sorted_ids,
                !.cols = cols,
                !.boxes = [n \in NodeIds(flow.nodes) |->
                    IconBox(GridCell(
                        (CHOOSE i \in DOMAIN sorted_ids : sorted_ids[i] = n) - 1, cols))]]
    /\ FlowMoved

NextFlow == FlowBegin \/ FlowPop \/ FlowPlace

InitFlow ==
    /\ pc = "init"
    /\ doc = <<>>
    /\ items = <<>>
    /\ by_type = NoBuckets
    /\ by_id = NoBuckets
    /\ result = NoResult
    /\ again = FALSE
    /\ key = [k |-> <<>>, out |-> <<>>, calls |-> 0]
    /\ passes = 0
    /\ web = NoWeb
    /\ \E nodes \in FlowNodeLists, edges \in FlowEdgeLists :
          flow = FlowCall(nodes, edges)

\* the call is one sequential run of the interpreter: a step that can be
\* taken is taken
SpecFlow == InitFlow /\ [][NextFlow]_vars /\ WF_vars(NextFlow)
-----------------------------------------------------------------------------
(* Subnet -> network resolution as a priority merge *)

\* the least index of idx, an index set of items, or 0
FirstOr0(idx) == IF idx = {} THEN 0 ELSE First(idx)

ItemType(i) == Get(items[i], "resourceType", EmptyStr).v

ItemId(i) == Get(items[i], "resourceId", EmptyStr).v

ItemCfg(i) == Get(items[i], "configuration", EmptyDict)

\* entries (zone mappings, associations) that name the subnet
Names(entries, sid) ==
    \E j \in 1..Len(entries) : Get(entries[j], "subnetId", EmptyStr) = S(sid)

\* what each strategy yields for a subnet id, "" when it yields nothing
OwnConfigEvidence(sid) ==
    LET i == FirstOr0({i \in 1..Len(items) :
                 /\ ItemType(i) = T_Subnet /\ ItemId(i) = sid
                 /\ IsDict(ItemCfg(i)) /\ Truthy(Get(ItemCfg(i), "vpcId", EmptyStr))})
    IN  IF i = 0 THEN EmptyStr ELSE Item(ItemCfg(i), "vpcId")

RelationshipEvidence(sid) ==
    LET i == FirstOr0({i \in 1..Len(items) :
                 /\ ItemType(i) = T_Subnet /\ ItemId(i) = sid
                 /\ Truthy(_get_related_vpc(items[i]))})
    IN  IF i = 0 THEN EmptyStr ELSE _get_related_vpc(items[i])

BridgeEvidence(type, sid) ==
    LET i == FirstOr0({i \in 1..Len(items) :
                 /\ ItemType(i) = type /\ IsDict(ItemCfg(i))
                 /\ Get(ItemCfg(i), "subnetId", EmptyStr) = S(sid)
                 /\ Truthy(Get(ItemCfg(i), "vpcId", EmptyStr))})
    IN  IF i = 0 THEN EmptyStr ELSE Item(ItemCfg(i), "vpcId")

ZoneEvidence(sid) ==
    LET i == FirstOr0({i \in 1..Len(items) :
                 /\ ItemType(i) = T_ALB /\ IsDict(ItemCfg(i))
                 /\ Truthy(Get(ItemCfg(i), "vpcId", EmptyStr))
                 /\ Names(Get(ItemCfg(i), "availabilityZones", EmptyList).v, sid)})
    IN  IF i = 0 THEN EmptyStr ELSE Item(ItemCfg(i), "vpcId")

AssociationEvidence(sid) ==
    LET i == FirstOr0({i \in 1..Len(items) :
                 /\ ItemType(i) = T_RouteTable /\ IsDict(ItemCfg(i))
                 /\ Truthy(RouteTableVpc(items[i], ItemCfg(i)))
                 /\ Names(RouteTableAssociations(ItemCfg(i)), sid)})
    IN  IF i = 0 THEN EmptyStr ELSE RouteTableVpc(items[i], ItemCfg(i))

\* the evidence of the six strategies in their priority order
Evidence(sid) ==
    << OwnConfigEvidence(sid), RelationshipEvidence(sid), BridgeEvidence(T_Instance, sid),
       BridgeEvidence(T_NAT, sid), ZoneEvidence(sid), AssociationEvidence(sid) >>

\* the value of the highest-priority strategy that yields one
Resolved(sid) ==
    LET e == Evidence(sid)
        k == FirstOr0({k \in 1..Len(e) : e[k] # EmptyStr})
    IN  IF k = 0 THEN EmptyStr ELSE e[k]

\* the subnet ids the snapshots name
SubnetIds == {AllSubnetIds[i] : i \in 1..Len(AllSubnetIds)} \cup {"sub-9"}

\* the ids of the subnet items whose resolved network is vpc, in item order
RECURSIVE ResolvedTo(_, _)
ResolvedTo(i, vpc) ==
    IF i > Len(items) THEN <<>>
    ELSE (IF ItemType(i) = T_Subnet /\ Resolved(ItemId(i)) = vpc THEN <<S(ItemId(i))>> ELSE <<>>)
         \o ResolvedTo(i + 1, vpc)

\* the "id" fields of a list of records
IdsOf(records) == [i \in 1..Len(records.v) |-> Item(records.v[i], "id")]

\* C1: subnet->network resolution is a priority merge.  The map that
\* _build_subnet_vpc_map returns gives every subnet id the value of the
\* highest-priority strategy that yields one (own configuration vpcId, own
\* relationship, instances, NAT gateways, load-balancer zones, route-table
\* associations) and has no entry for an id without evidence; and
\* get_subnets_for_vpc(v) returns exactly the subnets whose resolved network
\* is v, so an explicit owner field beats a contradicting relationship or
\* bridge in both.
C1_PriorityMerge ==
    /\ result.op = "_build_subnet_vpc_map" =>
          /\ \A sid \in SubnetIds : Get(result.value, sid, EmptyStr) = Resolved(sid)
          /\ Keys(result.value) \subseteq SubnetIds
    /\ result.op = "get_subnets_for_vpc" =>
          IdsOf(result.value) = ResolvedTo(1, result.arg)

\* an explicit owner field contradicted by the relationship and by a bridge:
\* the map and the query both follow the explicit field
C1_Witness ==
    /\ OwnConfigEvidence("sub-1") # EmptyStr
    /\ RelationshipEvidence("sub-1") \notin {EmptyStr, OwnConfigEvidence("sub-1")}
    /\ BridgeEvidence(T_Instance, "sub-1") \notin {EmptyStr, OwnConfigEvidence("sub-1")}
    /\ \/ /\ result.op = "_build_subnet_vpc_map"
          /\ Get(result.value, "sub-1", EmptyStr) = OwnConfigEvidence("sub-1")
       \/ /\ result.op = "get_subnets_for_vpc"
          /\ result.arg = OwnConfigEvidence("sub-1")
          /\ IdsOf(result.value) = <<S("sub-1")>>

-----------------------------------------------------------------------------
(* Tier classification *)

\* the indexes of the items of a type, in enumeration order
ItemsOfType(type) == {i \in 1..Len(items) : ItemType(i) = type}

\* the route tables owned by network vpc
OwnedTables(vpc) ==
    {i \in ItemsOfType(T_RouteTable) : RouteTableVpc(items[i], ConfigOrEmpty(items[i])) = vpc}

\* route table i is associated with subnet sid
Serves(i, sid) == Names(RouteTableAssociations(ConfigOrEmpty(items[i])), sid)

\* route table i has an association without subnet id that is marked main
IsMainTable(i) ==
    LET assocs == RouteTableAssociations(ConfigOrEmpty(items[i])) IN
    \E j \in 1..Len(assocs) :
        ~Truthy(Get(assocs[j], "subnetId", EmptyStr)) /\ Truthy(Get(assocs[j], "main", B(FALSE)))

\* some route table of the network produces a classification
RoutingClassifies(vpc) == \E i \in OwnedTables(vpc) : \E sid \in SubnetIds : Serves(i, sid)

\* the routes of route table i
RoutesOfTable(i) ==
    Get(ConfigOrEmpty(items[i]), "routes", Get(ConfigOrEmpty(items[i]), "routeSet", EmptyList)).v

\* the default routes (destination 0.0.0.0/0) of route table i
DefaultRoutes(i) ==
    {j \in 1..Len(RoutesOfTable(i)) :
        S("0.0.0.0/0") \in {Get(RoutesOfTable(i)[j], "destinationCidrBlock", None),
                            Get(RoutesOfTable(i)[j], "destinationCidr", None)}}

\* the tier the routing stage is to give the subnets of route table i
ExpectedTier(i) ==
    IF \E j \in DefaultRoutes(i) : Get(RoutesOfTable(i)[j], "gatewayId", EmptyStr).v \in IgwIds
    THEN Public
    ELSE IF DefaultRoutes(i) # {} THEN Private
    ELSE Isolated

\* the default tier of the network: that of its main route table, Private
\* when it has none
DefaultTier(vpc) ==
    LET mains == {i \in OwnedTables(vpc) : IsMainTable(i)} IN
    IF mains = {} THEN Private ELSE ExpectedTier(CHOOSE i \in mains : \A k \in mains : k <= i)

\* the subnet ids that resolve to network vpc
NetworkSubnets(vpc) == {sid \in SubnetIds : Resolved(sid) = vpc}

\* the subnet item that a record of get_subnets_for_vpc was made from
ItemOfRecord(rec) ==
    items[CHOOSE i \in ItemsOfType(T_Subnet) : S(ItemId(i)) = Item(rec, "id")]

\* the subnet item carries a tier hint of its own: a Tier tag, a Name with
\* one of the tier words, or mapPublicIpOnLaunch
HasOwnHint(item) ==
    \/ Truthy(Get(Get(item, "tags", EmptyDict), "Tier", EmptyStr))
    \/ NameHint(Get(item, "tags", EmptyDict)) # EmptyStr
    \/ Truthy(Get(ConfigOrEmpty(item), "mapPublicIpOnLaunch", None))

HasTierTag(item) == Truthy(Get(Get(item, "tags", EmptyDict), "Tier", EmptyStr))

\* the records of a get_subnets_for_vpc result
Records == {result.value.v[i] : i \in 1..Len(result.value.v)}

\* the ids the service-placement stage is to make Public / Isolated
PlacedPublic(vpc) ==
    {sid \in NetworkSubnets(vpc) :
        \/ \E i \in ItemsOfType(T_NAT) : Get(ConfigOrEmpty(items[i]), "subnetId", EmptyStr) = S(sid)
        \/ \E i \in ItemsOfType(T_ALB) :
              /\ Get(ConfigOrEmpty(items[i]), "scheme", EmptyStr) = S("internet-facing")
              /\ Names(Get(ConfigOrEmpty(items[i]), "availabilityZones", EmptyList).v, sid)}

PlacedIsolated(vpc) ==
    {sid \in NetworkSubnets(vpc) :
        \E i \in ItemsOfType(T_RDS) :
            LET subs == Get(DbSubnetGroup(ConfigOrEmpty(items[i])), "subnets", EmptyList).v IN
            \E j \in 1..Len(subs) : Get(subs[j], "subnetIdentifier", EmptyStr) = S(sid)}
    \ PlacedPublic(vpc)

\* the routing stage classifies a subnet of every owned table exactly when
\* some owned table is associated with a subnet
StageUsed(vpc) ==
    IF RoutingClassifies(vpc) THEN "routing"
    ELSE IF PlacedPublic(vpc) \cup PlacedIsolated(vpc) # {} THEN "service"
    ELSE "structural"

\* C2, as the specification states it: in a network whose route tables
\* classify a subnet, every subnet without a route-table association gets
\* the default tier.
C2_UnassociatedGetDefault ==
    (result.op = "get_subnets_for_vpc" /\ RoutingClassifies(result.arg)) =>
        \A rec \in Records :
            (\A i \in OwnedTables(result.arg) : ~Serves(i, Item(rec, "id").v)) =>
                Item(rec, "tier") = DefaultTier(result.arg)

\* C2, amended: routing authority.  In a network whose route tables classify
\* a subnet, the tier map holds only what the route tables say (its entries
\* are subnets some owned table is associated with, plus the default of the
\* main table), so no tier comes from NAT / load-balancer / database
\* placement or from the zone distribution; and every subnet without an
\* association and without a hint of its own (Tier tag, tier word in its
\* Name, mapPublicIpOnLaunch) gets the default tier, Private when there is
\* no main table.
C2_RoutingAuthority ==
    /\ (result.op = "_build_subnet_tier_map" /\ RoutingClassifies(result.arg)) =>
          /\ \A sid \in RealEntries(result.value) :
                \E i \in OwnedTables(result.arg) : Serves(i, sid)
          /\ Has(result.value, "_main") => Item(result.value, "_main") = DefaultTier(result.arg)
    /\ (result.op = "get_subnets_for_vpc" /\ RoutingClassifies(result.arg)) =>
          \A rec \in Records :
              (/\ \A i \in OwnedTables(result.arg) : ~Serves(i, Item(rec, "id").v)
               /\ ~HasOwnHint(ItemOfRecord(rec))) =>
                  Item(rec, "tier") = DefaultTier(result.arg)

\* a NAT gateway sits in the unassociated sub-2 while a route table
\* classifies sub-1: sub-2 is reported with the default tier, not Public
C2_Witness ==
    /\ result.op = "get_subnets_for_vpc"
    /\ RoutingClassifies(result.arg)
    /\ "sub-2" \in PlacedPublic(result.arg)
    /\ \A i \in OwnedTables(result.arg) : ~Serves(i, "sub-2")
    /\ \E rec \in Records :
          /\ Item(rec, "id") = S("sub-2")
          /\ Item(rec, "tier") = DefaultTier(result.arg)
          /\ Item(rec, "tier") # Public

\* C3: routing stage classification.  For every route table owned by the
\* network, each subnet associated with it is Public when the table has a
\* default route to an internet gateway, else Private when it has a default
\* route (to a NAT gateway or any other target), else Isolated; a main
\* association without subnet id sets the default tier instead.  The tier
\* map says so, and get_subnets_for_vpc reports that tier for every such
\* subnet that has no Tier tag.
C3_RoutingClassification ==
    /\ result.op = "_build_subnet_tier_map" =>
          \A i \in OwnedTables(result.arg) :
              /\ \A sid \in SubnetIds :
                    Serves(i, sid) => Get(result.value, sid, EmptyStr) = ExpectedTier(i)
              /\ IsMainTable(i) => Get(result.value, "_main", EmptyStr) = ExpectedTier(i)
    /\ result.op = "get_subnets_for_vpc" =>
          \A rec \in Records : \A i \in OwnedTables(result.arg) :
              (Serves(i, Item(rec, "id").v) /\ ~HasTierTag(ItemOfRecord(rec))) =>
                  Item(rec, "tier") = ExpectedTier(i)

\* a table whose default route goes to a target that is neither an internet
\* gateway nor a NAT gateway makes its subnet Private, and the main table
\* sets the default
C3_Witness ==
    /\ result.op = "_build_subnet_tier_map"
    /\ \E i \in OwnedTables(result.arg) :
          /\ Serves(i, "sub-1") /\ IsMainTable(i)
          /\ \E j \in DefaultRoutes(i) : Get(RoutesOfTable(i)[j], "gatewayId", EmptyStr) = S("vgw-1")
    /\ Get(result.value, "sub-1", EmptyStr) = Private
    /\ Get(result.value, "_main", EmptyStr) = Private

\* C4: service-placement stage.  When the routing stage classified no subnet
\* of the network, every subnet of the network that hosts a NAT gateway or
\* is in the zones of an internet-facing load balancer is Public, every
\* subnet of the network in a database subnet group that was not made
\* Public is Isolated, and when a subnet was classified this way the
\* structural stage is not run: the tier map has no further entries.
C4_ServicePlacement ==
    (result.op = "_build_subnet_tier_map" /\ ~RoutingClassifies(result.arg)) =>
        /\ \A sid \in PlacedPublic(result.arg) : Get(result.value, sid, EmptyStr) = Public
        /\ \A sid \in PlacedIsolated(result.arg) : Get(result.value, sid, EmptyStr) = Isolated
        /\ PlacedPublic(result.arg) \cup PlacedIsolated(result.arg) # {} =>
              RealEntries(result.value) = PlacedPublic(result.arg) \cup PlacedIsolated(result.arg)

\* Scenario D with a subnet that is in both: a NAT gateway in sub-1, a
\* database over sub-1 and sub-2
C4_Witness ==
    /\ result.op = "_build_subnet_tier_map"
    /\ ~RoutingClassifies(result.arg)
    /\ PlacedPublic(result.arg) = {"sub-1"}
    /\ PlacedIsolated(result.arg) = {"sub-2"}
    /\ result.value = D(<< <<"sub-1", Public>>, <<"sub-2", Isolated>>, <<"_main", Private>> >>)

\* the availability zone the structural stage files subnet item i under
ZoneOf(i) ==
    LET az1 == IF IsDict(ItemCfg(i)) THEN Get(ItemCfg(i), "availabilityZone", EmptyStr) ELSE EmptyStr
        az == IF Truthy(az1) THEN az1 ELSE Get(items[i], "availabilityZone", EmptyStr)
    IN  IF Truthy(az) THEN az.v ELSE "unknown"

\* the subnet items of network vpc
NetworkSubnetItems(vpc) ==
    LET ids == NetworkSubnets(vpc) IN {k \in ItemsOfType(T_Subnet) : ItemId(k) \in ids}

\* the subnet items among members that share the zone of subnet item i
ZoneMates(i, members) == {k \in members : ZoneOf(k) = ZoneOf(i)}

\* an instance is attached to the subnet
HasCompute(sid) ==
    \E i \in ItemsOfType(T_Instance) :
        IsDict(ItemCfg(i)) /\ Get(ItemCfg(i), "subnetId", EmptyStr) = S(sid)

\* the snapshot holds an internet gateway or a NAT gateway
GatewayExists == ItemsOfType(T_IGW) \cup ItemsOfType(T_NAT) # {}

\* subnet items a and b are the two subnets of the network in their zone,
\* a with an instance and b without
ComputePair(a, b, members) ==
    /\ a # b
    /\ ZoneMates(a, members) = {a, b}
    /\ HasCompute(ItemId(a)) /\ ~HasCompute(ItemId(b))

\* C5, as the specification states it: with no routing and no placement
\* evidence, of two subnets of a zone the one without compute is Public and
\* the one with compute Private, whatever their enumeration order.
C5_ComputeFreeIsPublic ==
    (result.op = "_build_subnet_tier_map" /\ StageUsed(result.arg) = "structural") =>
        LET members == NetworkSubnetItems(result.arg) IN
        \A a, b \in members :
            ComputePair(a, b, members) =>
                /\ Get(result.value, ItemId(b), EmptyStr) = Public
                /\ Get(result.value, ItemId(a), EmptyStr) = Private

\* C5, amended: structural last resort for two subnets of a zone, one with
\* compute and one without.  When the snapshot holds an internet gateway or
\* a NAT gateway, the subnet without compute is Public and the other
\* Private, whatever the enumeration order; when it holds neither, the
\* subnet enumerated first is Public and the second Private.
C5_TwoSubnetZone ==
    (result.op = "_build_subnet_tier_map" /\ StageUsed(result.arg) = "structural") =>
        LET members == NetworkSubnetItems(result.arg) IN
        \A a, b \in members :
            ComputePair(a, b, members) =>
                LET pub == IF GatewayExists THEN b ELSE (IF a < b THEN a ELSE b)
                    prv == IF pub = a THEN b ELSE a
                IN  /\ Get(result.value, ItemId(pub), EmptyStr) = Public
                    /\ Get(result.value, ItemId(prv), EmptyStr) = Private

\* a gateway exists and the subnet with the instance is enumerated first:
\* the second subnet is Public
C5_Witness ==
    /\ result.op = "_build_subnet_tier_map"
    /\ StageUsed(result.arg) = "structural"
    /\ GatewayExists
    /\ \E a, b \in NetworkSubnetItems(result.arg) :
          /\ a < b
          /\ ComputePair(a, b, NetworkSubnetItems(result.arg))
          /\ Get(result.value, ItemId(b), EmptyStr) = Public
          /\ Get(result.value, ItemId(a), EmptyStr) = Private

\* C7: every subnet returned by get_subnets_for_vpc carries a tier that is
\* one of Public, Private, Isolated.
C7_TierEnumerated ==
    result.op = "get_subnets_for_vpc" =>
        \A rec \in Records : Item(rec, "tier") \in {Public, Private, Isolated}

-----------------------------------------------------------------------------
(* Queries on a loaded snapshot: failure, stability *)

\* C6: no query on a loaded snapshot raises; every query returns a result,
\* also when a field is missing, a nested value has the wrong shape or the
\* configuration text did not parse.
C6_NoQueryRaises == ~IsRaise(result.value)

\* the index as the constructor leaves it for the snapshot
FreshIndex == IndexByType(NoBuckets, Normalized(doc))

\* the answer of query op with argument arg on the index bt
QueryOn(bt, op, arg) ==
    CASE op = "_build_subnet_vpc_map" -> _build_subnet_vpc_map(bt)
      [] op = "_build_subnet_cidr_map" -> _build_subnet_cidr_map(bt)
      [] op = "_build_subnet_tier_map" -> _build_subnet_tier_map(bt, arg)
      [] op = "_build_nat_vpc_map" -> _build_nat_vpc_map(bt)
      [] op = "_build_igw_vpc_map" -> _build_igw_vpc_map(bt)
      [] op = "_build_rds_vpc_map" -> _build_rds_vpc_map(bt)
      [] op = "_get_primary_vpc_id" -> _get_primary_vpc_id(bt)
      [] op = "get_subnets_for_vpc" -> get_subnets_for_vpc(bt, arg)
      [] op = "get_igw_for_vpc" -> get_igw_for_vpc(bt, arg)
      [] op = "get_nat_gateways_for_vpc" -> get_nat_gateways_for_vpc(bt, arg)
      [] op = "get_sg_connections" -> get_sg_connections(bt)
      [] op = "get_security_groups_for_vpc" -> get_security_groups_for_vpc(bt, arg)
      [] op = "get_external_sg_rules" -> get_external_sg_rules(bt, arg)

\* C8: the maps and tier assignments are a function of the snapshot alone:
\* whatever queries came before, a query answers what it answers as the
\* first call on a parser freshly loaded from the same snapshot.
C8_Stable ==
    result.op # "none" => result.value = QueryOn(FreshIndex, result.op, result.arg)

\* a second query, made after an earlier one left an empty bucket in the
\* index, answers with a tier map of the structural stage
C8_Witness ==
    /\ again
    /\ by_type # FreshIndex
    /\ T_IGW \in DOMAIN by_type
    /\ T_IGW \notin DOMAIN FreshIndex
    /\ result.op = "_build_subnet_tier_map"
    /\ \E sid \in RealEntries(result.value) : TRUE
    /\ TierSource(FreshIndex, result.arg) = "structural"

-----------------------------------------------------------------------------
(* Normalisation: idempotence, configuration text *)

C10_UnparsableBecomesEmpty ==
    pc = "loaded" =>
        \A i \in 1..Len(doc) :
            LET cfg == Get(doc[i], "configuration", None) IN
            (IsStr(cfg) /\ IsRaise(json_loads(cfg.v))) =>
                Get(items[i], "configuration", None) = EmptyDict

\* ---------------------------------------------------------------------
\* Key rewriting and acronyms

\* the key with only its first character lowercased
FirstLowered(chars) ==
    IF Len(chars) = 0 THEN chars
    ELSE Lower(SubSeq(chars, 1, 1)) \o SubSeq(chars, 2, Len(chars))

\* the length of the run of uppercase characters a key begins with
RECURSIVE LeadingCapitals(_, _)
LeadingCapitals(chars, n) ==
    IF n < Len(chars) /\ IsUpper(chars[n + 1])
    THEN LeadingCapitals(chars, n + 1)
    ELSE n

\* C11: _to_camel lowercases only the very first character of a key that
\* begins with an uppercase letter, whether one capital or a run of two or
\* more capitals follows (DBInstanceClass -> dBInstanceClass), and returns
\* a key that begins with a lowercase character unchanged.
C11_AcronymKept ==
    key.calls = 1 =>
        IF LeadingCapitals(key.k, 0) >= 1
        THEN key.out = FirstLowered(key.k)
        ELSE key.out = key.k

\* ---------------------------------------------------------------------
\* The index after load

\* the positions of the raw items whose type the allow-list holds
AllowedPositions == {i \in 1..Len(items) : ItemType(i) \in AUDIT_RESOURCE_TYPES}

\* how often the item at position i occurs in the bucket of its type
TimesInBucket(i) ==
    LET b == BucketGet(by_type, ItemType(i))
    IN  Cardinality({j \in 1..Len(b) : b[j] = items[i]})

\* the id-lookup entries whose value is the item at position i
EntriesOf(i) == {r \in DOMAIN by_id : by_id[r] = items[i]}

\* C12: after load every item of an allow-listed type is once in the
\* bucket of its type and the value of exactly one id-lookup entry, there
\* are as many id-lookup entries as allow-listed items, an item of another
\* type is in neither view, and an empty snapshot gives empty indices.
C12_IndexInvariant ==
    pc = "loaded" =>
        /\ \A i \in AllowedPositions :
              /\ TimesInBucket(i) = 1
              /\ Cardinality(EntriesOf(i)) = 1
        /\ Cardinality(DOMAIN by_id) = Cardinality(AllowedPositions)
        /\ \A i \in (1..Len(items)) \ AllowedPositions :
              /\ TimesInBucket(i) = 0
              /\ EntriesOf(i) = {}
        /\ (items = <<>> => DOMAIN by_id = {} /\ \A t \in DOMAIN by_type : by_type[t] = <<>>)

\* ---------------------------------------------------------------------
\* Network selection scoring

\* the load balancers whose configuration names the network
LoadBalancersIn(vpc) ==
    {i \in ItemsOfType(T_ALB) : Get(ItemCfg(i), "vpcId", EmptyStr) = S(vpc)}

\* the databases the database map gives to the network
DatabasesIn(vpc) ==
    {i \in ItemsOfType(T_RDS) : Get(_build_rds_vpc_map(FreshIndex), ItemId(i), None) = S(vpc)}

\* the instances whose own configuration names the network
InstancesNaming(vpc) ==
    {i \in ItemsOfType(T_Instance) : Get(ItemCfg(i), "vpcId", EmptyStr) = S(vpc)}

\* the subnets the subnet map resolves to the network
SubnetsIn(vpc) ==
    LET s2v == _build_subnet_vpc_map(FreshIndex)
    IN  {k \in 1..Len(s2v.v) : s2v.v[k][2] = S(vpc)}

\* the score of the network selection rule
Score(vpc) ==
    Cardinality(SubnetsIn(vpc))
    + 10 * Cardinality(LoadBalancersIn(vpc))
    + 5 * Cardinality(DatabasesIn(vpc))
    + 10 * Cardinality(InstancesNaming(vpc))

\* C13: the network _get_primary_vpc_id returns has the greatest score,
\* where the score of a network is the number of subnets resolved to it,
\* plus 10 for each load balancer in it, 5 for each database in it and 10
\* for each instance whose configuration names it.
C13_MaximizesScore ==
    result.op = "_get_primary_vpc_id" /\ IsStr(result.value) =>
        \A v \in Vpcs : Score(result.value.v) >= Score(v)

\* ---------------------------------------------------------------------
\* Recomputation

\* C15: on a loaded parser the subnet->network map is computed at most
\* once: no query runs _build_subnet_vpc_map more than once, and a query
\* that follows one that ran it does not run it again.
C15_ComputedOnce ==
    [][/\ result'.runs <= 1
       /\ (result.runs >= 1 => result'.runs = 0)]_vars

\* ---------------------------------------------------------------------
\* The database map

\* C18: in a snapshot with at least one network every database instance
\* has an entry in the map _build_rds_vpc_map returns.
C18_EveryDatabaseMapped ==
    result.op = "_build_rds_vpc_map" /\ IsDict(result.value) /\ ItemsOfType(T_VPC) # {} =>
        \A i \in ItemsOfType(T_RDS) : Has(result.value, ItemId(i))

\* ---------------------------------------------------------------------
\* Tier tags and hints

\* the value of the Tier tag of a subnet item
TierTag(item) == Get(Get(item, "tags", EmptyDict), "Tier", EmptyStr)

\* the tier map of the cascade for the queried network
Cascade == _build_subnet_tier_map(FreshIndex, result.arg)

\* the tier the map gives the subnet of a record, "" when it gives none
CascadeTier(rec, tier_map) == Get(tier_map, Item(rec, "id").v, EmptyStr)

\* the record has the tag's tier when its subnet has a Tier tag, else the
\* tier of the map when the map has one
TagThenCascade(rec, item, tier_map) ==
    IF HasTierTag(item)
    THEN Item(rec, "tier") = TierTag(item)
    ELSE Truthy(CascadeTier(rec, tier_map)) => Item(rec, "tier") = CascadeTier(rec, tier_map)

\* C14: in the answer of get_subnets_for_vpc a subnet with a non-empty
\* Tier tag has the tag's value as its tier, whatever the cascade, the
\* Name tag and mapPublicIpOnLaunch say; a subnet without Tier tag that
\* the cascade classified has the cascade's tier, so that the Name hint
\* decides only for a subnet with neither.
C14_TierTagOverrides ==
    result.op = "get_subnets_for_vpc" /\ IsList(result.value) =>
        LET tier_map == Cascade IN
        \A rec \in Records : TagThenCascade(rec, ItemOfRecord(rec), tier_map)

\* a subnet tagged Isolated that its route table makes Public, answered
\* as Isolated
C14_Witness ==
    /\ result.op = "get_subnets_for_vpc"
    /\ IsList(result.value)
    /\ \E rec \in Records :
          /\ TierTag(ItemOfRecord(rec)) = Isolated
          /\ RoutingClassifies(result.arg)
          /\ CascadeTier(rec, Cascade) = Public
          /\ Item(rec, "tier") = Isolated

\* ---------------------------------------------------------------------
\* Externally exposed rules

\* the network a security group item resolves to: its configuration's
\* vpcId, else its relationship to a VPC
GroupNetwork(i) ==
    IF Truthy(Get(ItemCfg(i), "vpcId", EmptyStr)) THEN Get(ItemCfg(i), "vpcId", EmptyStr)
    ELSE _get_related_vpc(items[i])

\* the ingress rules of security group item i
IngressRules(i) == Get(ItemCfg(i), "ipPermissions", EmptyList).v

\* a source range, in string or in mapping form, that admits every source
IsOpenRange(r) ==
    \/ r = S("0.0.0.0/0")
    \/ IsDict(r) /\ Get(r, "cidrIp", None) = S("0.0.0.0/0")

\* the positions of the open ranges among the ipRanges of a rule
OpenRanges(rule) ==
    LET ranges == Get(rule, "ipRanges", EmptyList).v
    IN  {k \in 1..Len(ranges) : IsOpenRange(ranges[k])}

\* the positions of the entries of the answer made for a rule of a group
EntriesFor(i, rule) ==
    {e \in 1..Len(result.value.v) :
        /\ Item(result.value.v[e], "sg_id") = Get(ItemCfg(i), "groupId", S(ItemId(i)))
        /\ Item(result.value.v[e], "from_port") = Get(rule, "fromPort", EmptyStr)}

C17_IndexReadOnly ==
    pc = "loaded" =>
        /\ items = Normalized(doc)
        /\ by_type = FreshIndex
        /\ by_id = IndexById(NoBuckets, Normalized(doc))

\* ---------------------------------------------------------------------
\* The default tier after service placement

\* the subnets of the network the service-placement stage classifies
Placed(vpc) == PlacedPublic(vpc) \cup PlacedIsolated(vpc)

\* the records of subnets the service-placement stage left unclassified
\* and that carry no tier hint of their own
OtherRecords(placed) ==
    {rec \in Records : Item(rec, "id").v \notin placed /\ ~HasOwnHint(ItemOfRecord(rec))}

\* the service-placement stage decides for the network: routing classified
\* no subnet and a service places at least one
ServiceDecides == result.op = "get_subnets_for_vpc" /\ IsList(result.value)
                      /\ ~RoutingClassifies(result.arg) /\ Placed(result.arg) # {}

\* C19 as stated: when the service-placement stage decides, every other
\* subnet of the network without a hint of its own is Private, whatever
\* the main route table says.
C19_OthersPrivate ==
    ServiceDecides => \A rec \in OtherRecords(Placed(result.arg)) : Item(rec, "tier") = Private

\* C19, amended: when the service-placement stage decides, every other
\* subnet of the network without a hint of its own gets the default tier
\* of the network: the tier of its main route table (Public for a default
\* route to an internet gateway, Isolated for no default route, Private
\* for another default route), and Private when no main route table
\* recorded one.
C19_OthersGetDefault ==
    ServiceDecides =>
        LET others == OtherRecords(Placed(result.arg))
            default == DefaultTier(result.arg)
        IN  \A rec \in others : Item(rec, "tier") = default

\* a NAT gateway places sub-1, the main route table has a default route to
\* the internet gateway, and an unplaced subnet is answered as Public
C19_Witness ==
    /\ ServiceDecides
    /\ DefaultTier(result.arg) = Public
    /\ \E rec \in OtherRecords(Placed(result.arg)) : Item(rec, "tier") = Public

\* ---------------------------------------------------------------------
\* Structural last resort, three or more subnets in a zone

\* the tier map of the answer gives subnet item k the tier
HasTier(k, tier) == Get(result.value, ItemId(k), EmptyStr) = tier

\* a database of the snapshot is in the network, or in no network the
\* database map knows, so that it may be in this one
DatabaseIn(vpc) ==
    LET rds2vpc == _build_rds_vpc_map(FreshIndex) IN
    \E i \in ItemsOfType(T_RDS) : Get(rds2vpc, ItemId(i), vpc) = vpc

\* the subnet item of the zone that is to be Public: the first without
\* compute, the first of all when every one has compute
PublicPick(zone) ==
    LET free == {k \in zone : ~HasCompute(ItemId(k))}
    IN  IF free # {} THEN First(free) ELSE First(zone)

\* the distribution of a zone of three or more subnets: one Public subnet,
\* one Isolated subnet when isolated is TRUE and none otherwise, the rest
\* Private; the Isolated one without compute when such a subnet is left
Distributed(zone, isolated) ==
    /\ {k \in zone : HasTier(k, Public)} = {PublicPick(zone)}
    /\ Cardinality({k \in zone : HasTier(k, Isolated)}) = IF isolated THEN 1 ELSE 0
    /\ \A k \in zone :
          HasTier(k, Isolated) /\ HasCompute(ItemId(k)) =>
              \A n \in zone \ {PublicPick(zone)} : HasCompute(ItemId(n))
    /\ \A k \in zone : HasTier(k, Public) \/ HasTier(k, Isolated) \/ HasTier(k, Private)

\* the zones of three or more subnets of the classified network
LargeZones ==
    LET members == NetworkSubnetItems(result.arg)
    IN  {ZoneMates(i, members) : i \in members} \ {z \in SUBSET members : Cardinality(z) < 3}

\* the structural stage answered a tier map query
StructuralAnswer == result.op = "_build_subnet_tier_map" /\ StageUsed(result.arg) = "structural"

\* C20: in the structural stage a zone of three or more subnets of the
\* network has one Public subnet (the first without compute, else the
\* first), one Isolated subnet exactly when a database exists in the
\* network being classified, and Private subnets otherwise.
C20_IsolatedIffDatabaseInNetwork ==
    StructuralAnswer => \A zone \in LargeZones : Distributed(zone, DatabaseIn(result.arg))

\* the same with the database anywhere in the snapshot, which is what the
\* structural stage asks
StructuralDistribution ==
    StructuralAnswer => \A zone \in LargeZones : Distributed(zone, ItemsOfType(T_RDS) # {})

\* ---------------------------------------------------------------------
\* The gateway maps

\* the gateway items, by position, and the networks of the snapshot
GatewayOwnEvidence(i) ==
    \/ \E j \in 1..Len(Get(ItemCfg(i), "attachments", EmptyList).v) :
          Truthy(Get(Get(ItemCfg(i), "attachments", EmptyList).v[j], "vpcId", EmptyStr))
    \/ Truthy(_get_related_vpc(items[i]))

\* the routes of the route table at position i
RoutesAt(i) == Get(ItemCfg(i), "routes", Get(ItemCfg(i), "routeSet", EmptyList)).v

\* the route tables with an owner that have a route, or a default route,
\* whose target is gateway id
TablesReferring(field, id, default_only) ==
    {i \in ItemsOfType(T_RouteTable) :
        /\ Truthy(RouteTableVpc(items[i], ItemCfg(i)))
        /\ \E j \in 1..Len(RoutesAt(i)) :
              /\ Get(RoutesAt(i)[j], field, EmptyStr) = S(id)
              /\ (default_only => IsDefaultRoute(RoutesAt(i)[j]))}

\* the gateway ids that have an owner before the last resort: from the
\* item itself or from a route of a route table
MappedBeforeLastResort ==
    {ItemId(i) : i \in {i \in ItemsOfType(T_IGW) : GatewayOwnEvidence(i)}}
    \cup {g \in IgwIds : TablesReferring("gatewayId", g, FALSE) # {}}

\* the networks the answer gives to gateways mapped before the last resort
NetworksWithGateway ==
    {Item(result.value, g).v : g \in {g \in MappedBeforeLastResort : Has(result.value, g)}}

\* the gateway items the last resort gave an owner
LastResortGateways ==
    {i \in ItemsOfType(T_IGW) :
        ItemId(i) \notin MappedBeforeLastResort /\ Has(result.value, ItemId(i))}

\* the network items that no gateway mapped before the last resort belongs to
NetworksMissingGateway ==
    {ItemId(i) : i \in ItemsOfType(T_VPC)} \ NetworksWithGateway

\* C21: the last resort of _build_igw_vpc_map gives a gateway an owner
\* only when exactly one network is missing a gateway, then that network,
\* and never a network that already has a gateway.
C21_LastResortGated ==
    result.op = "_build_igw_vpc_map" /\ IsDict(result.value) =>
        \A i \in LastResortGateways :
            /\ Cardinality(NetworksMissingGateway) = 1
            /\ Item(result.value, ItemId(i)).v \in NetworksMissingGateway

\* the last resort never gives a network a second gateway: a gateway it
\* placed is alone in its network
NoSecondGateway ==
    result.op = "_build_igw_vpc_map" /\ IsDict(result.value) =>
        \A i \in LastResortGateways :
            \A g \in Keys(result.value) :
                Item(result.value, g) = Item(result.value, ItemId(i)) => g = ItemId(i)

\* the gateway ids that an item of the snapshot gives an owner itself
OwnedByItem == {ItemId(i) : i \in {i \in ItemsOfType(T_IGW) : GatewayOwnEvidence(i)}}

\* the gateway ids of the gateway items
GatewayItemIds == {ItemId(i) : i \in ItemsOfType(T_IGW)}

\* C22: a gateway id that no item gives an owner and that no default
\* route of an owned route table has as its target gets no owner from the
\* route tables: it is in the map only as a gateway item the last resort
\* gave to the primary network.
C22_DefaultRouteOnly ==
    result.op = "_build_igw_vpc_map" /\ IsDict(result.value) =>
        \A g \in IgwIds \ OwnedByItem :
            TablesReferring("gatewayId", g, TRUE) = {} /\ Has(result.value, g) =>
                /\ g \in GatewayItemIds
                /\ Item(result.value, g) = _get_primary_vpc_id(FreshIndex)

\* ---------------------------------------------------------------------
\* The NAT gateway map

\* the owner of the first owned route table that has a route to NAT id
TableEvidence(id) ==
    LET i == FirstOr0(TablesReferring("natGatewayId", id, FALSE))
    IN  IF i = 0 THEN EmptyStr ELSE RouteTableVpc(items[i], ItemCfg(i))

\* the network of the NAT gateway at position i by the cascade: its own
\* vpcId, else its relationships, else a route table, else the primary
\* network
NatCascade(i, primary) ==
    IF Truthy(Get(ItemCfg(i), "vpcId", EmptyStr)) THEN Item(ItemCfg(i), "vpcId")
    ELSE IF Truthy(_get_related_vpc(items[i])) THEN _get_related_vpc(items[i])
    ELSE IF Truthy(TableEvidence(ItemId(i))) THEN TableEvidence(ItemId(i))
    ELSE primary

\* the NAT gateway at position i has no evidence of its network
NatWithoutEvidence(i) ==
    /\ ~Truthy(Get(ItemCfg(i), "vpcId", EmptyStr))
    /\ ~Truthy(_get_related_vpc(items[i]))
    /\ ~Truthy(TableEvidence(ItemId(i)))

SubnetOf(rec) ==
    First({i \in ItemsOfType(T_Subnet) : S(ItemId(i)) = Item(rec, "id")})

\* the first value of seq that is not empty, or the empty string
RECURSIVE FirstNonEmpty(_)
FirstNonEmpty(seq) ==
    IF seq = <<>> THEN EmptyStr
    ELSE IF Truthy(Head(seq)) THEN Head(seq)
    ELSE FirstNonEmpty(Tail(seq))

SupplementaryOf(i) == Get(items[i], "supplementaryConfiguration", EmptyDict)

\* the association set of the subnet at position i, parsed when it is text
AssociationSetAt(i) ==
    LET set == Get(SupplementaryOf(i), "cidrBlockAssociationSet", EmptyList)
    IN  IF ~IsStr(set) THEN set.v
        ELSE IF IsRaise(json_loads(set.v)) THEN <<>>
        ELSE json_loads(set.v).v

\* the cidrBlock values of the entries of an association set
BlocksOf(set) ==
    [j \in 1..Len(set) |->
        IF IsDict(set[j]) THEN Get(set[j], "cidrBlock", EmptyStr) ELSE EmptyStr]

\* what the subnet at position i says itself about its CIDR, in the order
\* configuration, supplementary configuration, association set, name
DeclaredCidrs(i) ==
    <<Get(ItemCfg(i), "cidrBlock", EmptyStr)>>
    \o (IF IsDict(SupplementaryOf(i))
        THEN <<Get(SupplementaryOf(i), "cidrBlock", EmptyStr)>> \o BlocksOf(AssociationSetAt(i))
        ELSE <<>>)
    \o (IF Contains(Get(items[i], "resourceName", EmptyStr).v, "/")
        THEN <<Get(items[i], "resourceName", EmptyStr)>> ELSE <<>>)

\* the private addresses the item at position i shows for subnet sid: of a
\* network interface the listed ones and then its own, of an instance its
\* own
AddressesAt(i, sid) ==
    IF Get(ItemCfg(i), "subnetId", EmptyStr) # S(sid) THEN <<>>
    ELSE (IF ItemType(i) = T_ENI
          THEN LET listed == Get(ItemCfg(i), "privateIpAddresses", EmptyList).v
               IN  SelectSeq([j \in 1..Len(listed) |->
                                 Get(listed[j], "privateIpAddress", EmptyStr)], Truthy)
          ELSE <<>>)
         \o SelectSeq(<<Get(ItemCfg(i), "privateIpAddress", EmptyStr)>>, Truthy)

\* the addresses seen in subnet sid by the items at the positions idx
RECURSIVE AddressesOf(_, _, _)
AddressesOf(idx, sid, from) ==
    IF from > Len(items) THEN <<>>
    ELSE (IF from \in idx THEN AddressesAt(from, sid) ELSE <<>>)
         \o AddressesOf(idx, sid, from + 1)

\* the addresses observed in subnet sid: network interfaces first, then
\* instances
Observed(sid) ==
    AddressesOf(ItemsOfType(T_ENI), sid, 1) \o AddressesOf(ItemsOfType(T_Instance), sid, 1)

\* a.b.c.0/24 for the address a.b.c.d
Slash24(ip) ==
    S(SplitDots(ip.v)[1] \o "." \o SplitDots(ip.v)[2] \o "." \o SplitDots(ip.v)[3] \o ".0/24")

\* C24: a subnet that declares no CIDR itself and in which a network
\* interface or an instance shows a private address a.b.c.d is returned
\* with the cidr a.b.c.0/24 of the first address observed, network
\* interfaces before instances.
C24_HeuristicCidr ==
    result.op = "get_subnets_for_vpc" /\ IsList(result.value) =>
        \A k \in 1..Len(result.value.v) :
            LET rec == result.value.v[k]
                seen == Observed(Item(rec, "id").v)
            IN  FirstNonEmpty(DeclaredCidrs(SubnetOf(rec))) = EmptyStr /\ seen # <<>> =>
                    Item(rec, "cidr") = Slash24(seen[1])

\* C25: the cidr of every subnet returned is the first non-empty value in
\* the order configuration cidrBlock, supplementary cidrBlock, first
\* non-empty cidrBlock of the association set (parsed when it is text,
\* empty when the text does not parse), resourceName when it holds a
\* slash, the /24 heuristic; it is empty when none yields a value.
C25_CidrCascade ==
    result.op = "get_subnets_for_vpc" /\ IsList(result.value) =>
        \A k \in 1..Len(result.value.v) :
            LET rec == result.value.v[k]
            IN  Item(rec, "cidr") =
                    FirstNonEmpty(DeclaredCidrs(SubnetOf(rec))
                                  \o <<Get(_build_subnet_cidr_map(FreshIndex),
                                           Item(rec, "id").v, EmptyStr)>>)

\* a subnet was returned whose configuration and supplementary cidrBlock
\* are empty, whose association set arrived as text, and that has a
\* resource name with a slash and an instance in it
C25_Witness ==
    /\ result.op = "get_subnets_for_vpc" /\ IsList(result.value)
    /\ \E k \in 1..Len(result.value.v) :
          LET i == SubnetOf(result.value.v[k])
          IN  /\ IsDict(SupplementaryOf(i))
              /\ IsStr(Get(SupplementaryOf(i), "cidrBlockAssociationSet", EmptyList))
              /\ DeclaredCidrs(i)[1] = EmptyStr /\ DeclaredCidrs(i)[2] = EmptyStr
              /\ Contains(Get(items[i], "resourceName", EmptyStr).v, "/")
              /\ Has(_build_subnet_cidr_map(FreshIndex), ItemId(i))
              /\ Item(result.value.v[k], "cidr") = S(AssociationCidr)

\* ---------------------------------------------------------------------
\* Ties of the primary network

\* the networks in the order they are counted: the owners of the subnet
\* map in its order, then the networks the instances name
CountingOrder ==
    Values(_build_subnet_vpc_map(FreshIndex))
    \o SelectSeq([i \in 1..Len(items) |->
                     IF ItemType(i) = T_Instance
                     THEN Get(ItemCfg(i), "vpcId", EmptyStr) ELSE EmptyStr], Truthy)

\* the count of network v: one per subnet, ten per instance
CountOf(v) ==
    Cardinality(SubnetsIn(v.v)) + 10 * Cardinality(InstancesNaming(v.v))

\* the networks that have the greatest count
Tied ==
    {CountingOrder[k] : k \in {k \in 1..Len(CountingOrder) :
        \A j \in 1..Len(CountingOrder) : CountOf(CountingOrder[k]) >= CountOf(CountingOrder[j])}}

\* where network v is counted first, and where its item is in the snapshot
FirstCounted(v) == First({k \in 1..Len(CountingOrder) : CountingOrder[k] = v})

ItemPosition(v) == FirstOr0({i \in ItemsOfType(T_VPC) : S(ItemId(i)) = v})

\* C26 as stated: of the networks that tie for the greatest count the
\* answer is the one whose item comes first among the network items.
C26_FirstNetworkItem ==
    result.op = "_get_primary_vpc_id" /\ Cardinality(Tied) >= 2 =>
        /\ result.value \in Tied
        /\ \A v \in Tied : ItemPosition(result.value) <= ItemPosition(v)

\* C26: of the networks that tie for the greatest count the answer is the
\* one that was counted first (as an owner in the subnet map, in the
\* map's order, else as the network an instance names); the answer is a
\* function of the snapshot.
C26_FirstCountedWins ==
    result.op = "_get_primary_vpc_id" /\ Cardinality(Tied) >= 2 =>
        /\ result.value \in Tied
        /\ \A v \in Tied : FirstCounted(result.value) <= FirstCounted(v)

\* two networks tie and the answer is not the first network item
C26_Witness ==
    /\ result.op = "_get_primary_vpc_id" /\ Cardinality(Tied) >= 2
    /\ \E v \in Tied : ItemPosition(v) < ItemPosition(result.value)

\* ---------------------------------------------------------------------
\* The shape of the structural distribution

\* the subnet items of zone that the answer gives the tier
WithTier(zone, tier) == {k \in zone : HasTier(k, tier)}

\* the shape of the tiers of one zone group
ZoneShape(zone) ==
    /\ Cardinality(zone) = 1 => WithTier(zone, Private) = zone
    /\ Cardinality(zone) >= 2 =>
          /\ Cardinality(WithTier(zone, Public)) = 1
          /\ Cardinality(WithTier(zone, Isolated)) <= 1
    /\ Cardinality(zone) = 2 => WithTier(zone, Isolated) = {}

\* C27: when the structural stage answers for a network, every subnet
\* item resolved to the network has one of the tiers Public, Private and
\* Isolated; a zone group of one subnet is Private, a group of two or
\* more has exactly one Public and at most one Isolated subnet, and a
\* group of exactly two has no Isolated subnet.
C27_StructuralShape ==
    StructuralAnswer =>
        LET members == NetworkSubnetItems(result.arg)
        IN  \A i \in members :
                /\ HasTier(i, Public) \/ HasTier(i, Private) \/ HasTier(i, Isolated)
                /\ ZoneShape(ZoneMates(i, members))

\* the structural stage answered for a network with a zone of three or
\* more subnets that all have an instance, one of them Isolated
C27_Witness ==
    /\ StructuralAnswer
    /\ \E i \in NetworkSubnetItems(result.arg) :
          LET zone == ZoneMates(i, NetworkSubnetItems(result.arg))
          IN  /\ Cardinality(zone) >= 3
              /\ \A k \in zone : HasCompute(ItemId(k))
              /\ WithTier(zone, Isolated) # {}

\* ---------------------------------------------------------------------
\* The subnets of the networks

\* the ids of the records of an answer of get_subnets_for_vpc
ReturnedIds(answer) == {Item(answer.v[k], "id").v : k \in 1..Len(answer.v)}

\* C28: every subnet get_subnets_for_vpc returns for a network is a subnet
\* item whose entry in the subnet->network map is that network, no subnet
\* id is returned for two different networks, and a subnet item without
\* an entry in the map is returned for no network.
C28_SubnetsPartitioned ==
    result.op = "get_subnets_for_vpc" /\ IsList(result.value) =>
        LET s2v == _build_subnet_vpc_map(FreshIndex)
        IN  /\ \A sid \in ReturnedIds(result.value) :
                  /\ \E i \in ItemsOfType(T_Subnet) : ItemId(i) = sid
                  /\ Get(s2v, sid, EmptyStr) = result.arg
            /\ \A v \in Vpcs \ {result.arg.v} :
                  ReturnedIds(get_subnets_for_vpc(FreshIndex, S(v))) \cap ReturnedIds(result.value) = {}
            /\ \A i \in ItemsOfType(T_Subnet) :
                  ~Has(s2v, ItemId(i)) =>
                      \A v \in Vpcs : ItemId(i) \notin ReturnedIds(get_subnets_for_vpc(FreshIndex, S(v)))

\* a subnet was returned whose configuration and relationships name
\* different networks, next to a subnet that no evidence resolves
C28_Witness ==
    /\ result.op = "get_subnets_for_vpc" /\ IsList(result.value)
    /\ \E i \in ItemsOfType(T_Subnet) :
          /\ ItemId(i) \in ReturnedIds(result.value)
          /\ Truthy(Get(ItemCfg(i), "vpcId", EmptyStr))
          /\ Truthy(_get_related_vpc(items[i]))
          /\ Get(ItemCfg(i), "vpcId", EmptyStr) # _get_related_vpc(items[i])
    /\ \E i \in ItemsOfType(T_Subnet) : ~Has(_build_subnet_vpc_map(FreshIndex), ItemId(i))

\* ---------------------------------------------------------------------
\* Concurrent export requests

\* C29: every export request that is answered with a file is answered
\* with the file generated from its own upload in its own format,
\* whatever the other requests upload and however the requests interleave.
C29_OwnFileServed ==
    \A r \in DOMAIN web.req :
        web.req[r].pc = "done" /\ web.req[r].status = 200 =>
            web.req[r].body = Generated(web.req[r].upload)

\* the temporary input file of a request is gone once its handler has
\* returned, with a file or with an error
TemporaryFileRemoved ==
    \A r \in DOMAIN web.req :
        web.req[r].pc \in {"responding", "done"} => TmpNames[r] \notin DOMAIN web.files

\* ---------------------------------------------------------------------
\* Icon flow layout

\* the place of a node in the order found (from 1)
FlowPosition(n) == CHOOSE i \in DOMAIN flow.sorted_ids : flow.sorted_ids[i] = n

\* the edges of the call between two of its nodes
FlowInternal ==
    {flow.edges[i] : i \in {j \in DOMAIN flow.edges :
        /\ flow.edges[j][1] \in NodeIds(flow.nodes)
        /\ flow.edges[j][2] \in NodeIds(flow.nodes)}}

\* the nodes no internal edge arrives at
FlowRoots == {n \in NodeIds(flow.nodes) : \A e \in FlowInternal : e[2] # n}

RECURSIVE FlowReach(_)
FlowReach(from) ==
    LET more == from \cup {e[2] : e \in {d \in FlowInternal : d[1] \in from}}
    IN  IF more = from THEN from ELSE FlowReach(more)

\* the nodes a path of internal edges leads to from a root
FlowReached == FlowReach(FlowRoots)

\* every given node is ordered exactly once
FlowOrdersAll ==
    /\ Len(flow.sorted_ids) = Len(flow.nodes)
    /\ \A n \in NodeIds(flow.nodes) : \E i \in DOMAIN flow.sorted_ids : flow.sorted_ids[i] = n

\* with a root: a node reached from the roots that is no root comes after
\* the source of one of its edges, and after no node that is not reached
FlowSourcesFirst ==
    FlowRoots # {} =>
        /\ \A t \in FlowReached \ FlowRoots :
              \E e \in FlowInternal : e[2] = t /\ FlowPosition(e[1]) < FlowPosition(t)
        /\ \A t \in FlowReached : \A u \in NodeIds(flow.nodes) \ FlowReached :
              FlowPosition(t) < FlowPosition(u)

\* the i-th node of the order (i from 0) stands in column i mod cols and
\* row i div cols of a grid of 1 to 3 columns; no two nodes share a cell
FlowCellsDistinct ==
    /\ flow.cols \in 1..3
    /\ \A n \in NodeIds(flow.nodes) :
          /\ flow.boxes[n].x = ((FlowPosition(n) - 1) % flow.cols) * 88
          /\ flow.boxes[n].y = ((FlowPosition(n) - 1) \div flow.cols) * 88
    /\ \A n, m \in NodeIds(flow.nodes) :
          n # m => flow.boxes[n].x # flow.boxes[m].x \/ flow.boxes[n].y # flow.boxes[m].y

FlowLaidOut ==
    flow.pc = "done" /\ flow.nodes # <<>> =>
        FlowOrdersAll /\ FlowSourcesFirst /\ FlowCellsDistinct

\* C30: for every list of nodes and every list of edges, cycles and
\* self-loops included, _layout_icons_flow returns, and when it has
\* returned every given node is ordered exactly once, a node reached from
\* the nodes of in-degree 0 stands after the source of one of its edges,
\* and the nodes stand in pairwise distinct cells (i mod cols, i div cols)
\* of a grid of 1 to 3 columns.
C30_FlowLayout == [](FlowLaidOut) /\ <>(flow.pc = "done")

\* a call with three nodes, reached from a root a two-node cycle, and a
\* self-loop or a third edge, laid out in two columns
C30_Witness ==
    /\ flow.pc = "done"
    /\ Len(flow.nodes) = 3
    /\ FlowRoots # {}
    /\ \E e \in FlowInternal :
          e[1] # e[2] /\ <<e[2], e[1]>> \in FlowInternal /\ e[1] \in FlowReached
    /\ flow.cols = 2
    /\ FlowLaidOut
====
